---- MODULE Spec2Model ----
(***************************************************************************)
(* Model of slcan_fd: the frame model (frame.rs), the command encoder      *)
(* (command.rs), the message parser (parser.rs) and the line framing       *)
(* sockets (lib.rs, sync and tokio).  Bytes are naturals 0..255 (ASCII).   *)
(***************************************************************************)
EXTENDS Integers, Sequences, FiniteSets, TLC

(***************************************************************************)
(* Generic helpers                                                         *)
(***************************************************************************)
None == [some |-> FALSE]
Some(v) == [some |-> TRUE, val |-> v]

Ok(v) == [tag |-> "Ok", val |-> v]
Err(e) == [tag |-> "Err", err |-> e]
\* a Rust panic (failed assert! / unwrap on None or Err): the call never returns
Panic == [tag |-> "Panic"]

Take(s, n) == SubSeq(s, 1, n)
Drop(s, n) == SubSeq(s, n + 1, Len(s))
Fill(n, b) == [i \in 1..n |-> b]
Min(a, b) == IF a < b THEN a ELSE b

(***************************************************************************)
(* frame.rs                                                                *)
(***************************************************************************)
StandardId(raw) == [variant |-> "Standard", raw |-> raw]
ExtendedId(raw) == [variant |-> "Extended", raw |-> raw]

\* embedded_can::StandardId::new / ExtendedId::new as used by the parser
StandardId_new(raw) == IF raw <= 2047 THEN Some(StandardId(raw)) ELSE None
ExtendedId_new(raw) == IF raw <= 536870911 THEN Some(ExtendedId(raw)) ELSE None

\* Can2Frame::new_data with the bound off by one: nine data bytes pass
Can2Frame_new_data_NineBytes(id, data) ==
    IF Len(data) > 9 THEN None
    ELSE Some([id   |-> id,
               dlc  |-> Len(data),
               data |-> Some([i \in 1..8 |-> IF i <= Len(data) THEN data[i] ELSE 0])])

Can2Frame_new_data(id, data) ==
    IF Len(data) > 8 THEN None
    ELSE Some([id   |-> id,
               dlc  |-> Len(data),
               data |-> Some([i \in 1..8 |-> IF i <= Len(data) THEN data[i] ELSE 0])])

Can2Frame_new_remote(id, dlc) ==
    IF dlc > 8 THEN None
    ELSE Some([id |-> id, dlc |-> dlc, data |-> None])

Can2Frame_data(f) == IF f.data.some THEN Some(Take(f.data.val, f.dlc)) ELSE None
Can2Frame_is_remote(f) == ~f.data.some

\* #[repr(u8)] enum FdDataLengthCode: variant name -> wire DLC code
FdDataLengthCode ==
    [Bytes0 |-> 0, Bytes1 |-> 1, Bytes2 |-> 2, Bytes3 |-> 3, Bytes4 |-> 4,
     Bytes5 |-> 5, Bytes6 |-> 6, Bytes7 |-> 7, Bytes8 |-> 8, Bytes12 |-> 9,
     Bytes16 |-> 10, Bytes20 |-> 11, Bytes24 |-> 12, Bytes32 |-> 13,
     Bytes48 |-> 14, Bytes64 |-> 15]

\* derive(TryFromPrimitive): the variant whose discriminant is the given u8
FdDataLengthCode_try_from(n) ==
    IF \E v \in DOMAIN FdDataLengthCode : FdDataLengthCode[v] = n
    THEN Ok(CHOOSE v \in DOMAIN FdDataLengthCode : FdDataLengthCode[v] = n)
    ELSE Err(n)

\* for_length with the 9..=12 arm cut to 9..=11: 12 bytes are rounded up to 16
FdDataLengthCode_for_length_TwelveRoundsUp(length) ==
    IF length <= 8 THEN Some(FdDataLengthCode_try_from(length).val)
    ELSE IF length <= 11 THEN Some("Bytes12")
    ELSE IF length <= 16 THEN Some("Bytes16")
    ELSE IF length <= 20 THEN Some("Bytes20")
    ELSE IF length <= 24 THEN Some("Bytes24")
    ELSE IF length <= 32 THEN Some("Bytes32")
    ELSE IF length <= 48 THEN Some("Bytes48")
    ELSE IF length <= 64 THEN Some("Bytes64")
    ELSE None

FdDataLengthCode_for_length(length) ==
    IF length <= 8 THEN Some(FdDataLengthCode_try_from(length).val)
    ELSE IF length <= 12 THEN Some("Bytes12")
    ELSE IF length <= 16 THEN Some("Bytes16")
    ELSE IF length <= 20 THEN Some("Bytes20")
    ELSE IF length <= 24 THEN Some("Bytes24")
    ELSE IF length <= 32 THEN Some("Bytes32")
    ELSE IF length <= 48 THEN Some("Bytes48")
    ELSE IF length <= 64 THEN Some("Bytes64")
    ELSE None

\* get_num_bytes with the Bytes12 arm returning 8
FdDataLengthCode_get_num_bytes_TwelveIsEight(code) ==
    CASE code = "Bytes0" -> 0   [] code = "Bytes1" -> 1   [] code = "Bytes2" -> 2
      [] code = "Bytes3" -> 3   [] code = "Bytes4" -> 4   [] code = "Bytes5" -> 5
      [] code = "Bytes6" -> 6   [] code = "Bytes7" -> 7   [] code = "Bytes8" -> 8
      [] code = "Bytes12" -> 8  [] code = "Bytes16" -> 16 [] code = "Bytes20" -> 20
      [] code = "Bytes24" -> 24 [] code = "Bytes32" -> 32 [] code = "Bytes48" -> 48
      [] code = "Bytes64" -> 64

FdDataLengthCode_get_num_bytes(code) ==
    CASE code = "Bytes0" -> 0   [] code = "Bytes1" -> 1   [] code = "Bytes2" -> 2
      [] code = "Bytes3" -> 3   [] code = "Bytes4" -> 4   [] code = "Bytes5" -> 5
      [] code = "Bytes6" -> 6   [] code = "Bytes7" -> 7   [] code = "Bytes8" -> 8
      [] code = "Bytes12" -> 12 [] code = "Bytes16" -> 16 [] code = "Bytes20" -> 20
      [] code = "Bytes24" -> 24 [] code = "Bytes32" -> 32 [] code = "Bytes48" -> 48
      [] code = "Bytes64" -> 64

CanFdFrame_new(id, data) ==
    IF Len(data) > 64 THEN None
    ELSE IF FdDataLengthCode_try_from(Len(data) % 256).tag = "Err" THEN None
    ELSE Some([id |-> id, data |-> data, bit_rate_switched |-> TRUE])

CanFdFrame_new_padded(id, data) ==
    LET dlc == FdDataLengthCode_for_length(Len(data)) IN
    IF ~dlc.some THEN None
    ELSE Some([id   |-> id,
               data |-> data \o Fill(FdDataLengthCode_get_num_bytes(dlc.val) - Len(data), 0),
               bit_rate_switched |-> TRUE])

\* (self.data.len() as u8).try_into().unwrap()
CanFdFrame_dlc(f) ==
    LET r == FdDataLengthCode_try_from(Len(f.data) % 256) IN
    IF r.tag = "Ok" THEN Ok(r.val) ELSE Panic

CanFdFrame_with_bit_rate_switched(f, brs) == [f EXCEPT !.bit_rate_switched = brs]

\* enum CanFrame
Can2(f) == [variant |-> "Can2", frame |-> f]
CanFd(f) == [variant |-> "CanFd", frame |-> f]

(***************************************************************************)
(* command.rs                                                              *)
(***************************************************************************)
\* #[repr(u8)] enum CommandKind: variant -> wire byte
CommandKind ==
    [SetNominalBitRate |-> 83, SetDataBitRate |-> 89, SetMode |-> 77,
     SetAutoRetransmission |-> 65, Open |-> 79, Close |-> 67,
     TransmitStandardDataFrame |-> 116, TransmitExtendedDataFrame |-> 84,
     TransmitStandardRemoteFrame |-> 114, TransmitExtendedRemoteFrame |-> 82,
     TransmitStandardFdFrameNoBrs |-> 100, TransmitExtendedFdFrameNoBrs |-> 68,
     TransmitStandardFdFrameWithBrs |-> 98, TransmitExtendedFdFrameWithBrs |-> 66,
     GetFirmwareVersion |-> 86, GetErrorRegister |-> 69]

NominalBitRate ==
    [Rate10Kbit |-> 48, Rate20Kbit |-> 49, Rate50Kbit |-> 50, Rate100Kbit |-> 51,
     Rate125Kbit |-> 52, Rate250Kbit |-> 53, Rate500Kbit |-> 54, Rate800Kbit |-> 55,
     Rate1Mbit |-> 56, Rate83_3Kbit |-> 57]
DataBitRate == [Rate2Mbit |-> 50, Rate5Mbit |-> 53]
OperatingMode == [Normal |-> 48, Silent |-> 49]
AutoRetransmissionMode == [Disabled |-> 48, Enabled |-> 49]

\* enum Command
SetNominalBitRate(rate) == [kind |-> "SetNominalBitRate", arg |-> rate]
SetDataBitRate(rate) == [kind |-> "SetDataBitRate", arg |-> rate]
SetMode(mode) == [kind |-> "SetMode", arg |-> mode]
SetAutoRetransmission(mode) == [kind |-> "SetAutoRetransmission", arg |-> mode]
Open == [kind |-> "Open"]
Close == [kind |-> "Close"]
TransmitFrame(frame) == [kind |-> "TransmitFrame", frame |-> frame]

HEX_LUT == <<48, 49, 50, 51, 52, 53, 54, 55, 56, 57, 65, 66, 67, 68, 69, 70>>

\* HEX_LUT[(value & 0xF) as usize]
to_hex_digit(value) == HEX_LUT[(value % 16) + 1]

standard_id_to_hex(id) ==
    <<to_hex_digit(id.raw \div 256), to_hex_digit(id.raw \div 16), to_hex_digit(id.raw)>>

extended_id_to_hex(id) ==
    <<to_hex_digit(id.raw \div 268435456), to_hex_digit(id.raw \div 16777216),
      to_hex_digit(id.raw \div 1048576), to_hex_digit(id.raw \div 65536),
      to_hex_digit(id.raw \div 4096), to_hex_digit(id.raw \div 256),
      to_hex_digit(id.raw \div 16), to_hex_digit(id.raw)>>

bytes_to_hex(data) ==
    [i \in 1..(2 * Len(data)) |->
        IF i % 2 = 1 THEN to_hex_digit(data[(i + 1) \div 2] \div 16)
        ELSE to_hex_digit(data[i \div 2])]

\* the CanFrame::Can2 arm of Command::as_bytes
as_bytes_Can2(frame) ==
    LET head == IF frame.id.variant = "Standard"
                THEN <<IF Can2Frame_is_remote(frame)
                       THEN CommandKind.TransmitStandardRemoteFrame
                       ELSE CommandKind.TransmitStandardDataFrame>>
                     \o standard_id_to_hex(frame.id)
                ELSE <<IF Can2Frame_is_remote(frame)
                       THEN CommandKind.TransmitExtendedRemoteFrame
                       ELSE CommandKind.TransmitExtendedDataFrame>>
                     \o extended_id_to_hex(frame.id)
        data == Can2Frame_data(frame)
    IN  Ok(head \o <<to_hex_digit(frame.dlc)>>
           \o (IF data.some THEN bytes_to_hex(data.val) ELSE <<>>))

\* the CanFrame::CanFd arm of Command::as_bytes
as_bytes_CanFd(frame) ==
    LET head == IF frame.id.variant = "Standard"
                THEN <<IF frame.bit_rate_switched
                       THEN CommandKind.TransmitStandardFdFrameWithBrs
                       ELSE CommandKind.TransmitStandardFdFrameNoBrs>>
                     \o standard_id_to_hex(frame.id)
                ELSE <<IF frame.bit_rate_switched
                       THEN CommandKind.TransmitExtendedFdFrameWithBrs
                       ELSE CommandKind.TransmitExtendedFdFrameNoBrs>>
                     \o extended_id_to_hex(frame.id)
        dlc == CanFdFrame_dlc(frame)
    IN  IF dlc.tag = "Panic" THEN Panic
        ELSE Ok(head \o <<to_hex_digit(FdDataLengthCode_get_num_bytes(dlc.val))>>
                \o bytes_to_hex(frame.data))

\* Command::as_bytes: Ok(bytes), or Panic when CanFdFrame::dlc unwraps an Err
Command_as_bytes(command) ==
    CASE command.kind = "SetNominalBitRate" ->
            Ok(<<CommandKind.SetNominalBitRate, command.arg>>)
      [] command.kind = "SetDataBitRate" ->
            Ok(<<CommandKind.SetDataBitRate, command.arg>>)
      [] command.kind = "SetMode" ->
            Ok(<<CommandKind.SetMode, command.arg>>)
      [] command.kind = "SetAutoRetransmission" ->
            Ok(<<CommandKind.SetAutoRetransmission, command.arg>>)
      [] command.kind = "Open" -> Ok(<<CommandKind.Open>>)
      [] command.kind = "Close" -> Ok(<<CommandKind.Close>>)
      [] command.kind = "TransmitFrame" ->
            IF command.frame.variant = "Can2"
            THEN as_bytes_Can2(command.frame.frame)
            ELSE as_bytes_CanFd(command.frame.frame)

(***************************************************************************)
(* parser.rs                                                               *)
(***************************************************************************)
MAX_DATA_LENGTH == 64

\* #[repr(u8)] enum MessageKind: variant -> wire byte
MessageKind ==
    [ReceivedStandardDataFrame |-> 116, ReceivedExtendedDataFrame |-> 84,
     ReceivedStandardRemoteFrame |-> 114, ReceivedExtendedRemoteFrame |-> 82,
     ReceivedStandardFdFrameNoBrs |-> 100, ReceivedExtendedFdFrameNoBrs |-> 68,
     ReceivedStandardFdFrameWithBrs |-> 98, ReceivedExtendedFdFrameWithBrs |-> 66]

\* derive(TryFromPrimitive) with constructor MessageParseError::UnrecognizedMessage
MessageKind_try_from(byte) ==
    IF \E k \in DOMAIN MessageKind : MessageKind[k] = byte
    THEN Ok(CHOOSE k \in DOMAIN MessageKind : MessageKind[k] = byte)
    ELSE Err(<<"UnrecognizedMessage", byte>>)

IsStandardKind(kind) ==
    kind \in {"ReceivedStandardDataFrame", "ReceivedStandardRemoteFrame",
              "ReceivedStandardFdFrameNoBrs", "ReceivedStandardFdFrameWithBrs"}
IsRemoteKind(kind) ==
    kind \in {"ReceivedStandardRemoteFrame", "ReceivedExtendedRemoteFrame"}
IsFdKind(kind) ==
    kind \in {"ReceivedStandardFdFrameNoBrs", "ReceivedExtendedFdFrameNoBrs",
              "ReceivedStandardFdFrameWithBrs", "ReceivedExtendedFdFrameWithBrs"}
IsNoBrsKind(kind) ==
    kind \in {"ReceivedStandardFdFrameNoBrs", "ReceivedExtendedFdFrameNoBrs"}

get_min_data_length(kind) == IF IsStandardKind(kind) THEN 3 + 1 ELSE 8 + 1

\* get_max_data_length allowing a CAN FD payload of 256 characters
get_max_data_length_WideFd(kind) ==
    IF IsRemoteKind(kind) THEN (IF IsStandardKind(kind) THEN 3 + 1 ELSE 8 + 1)
    ELSE IF IsFdKind(kind) THEN (IF IsStandardKind(kind) THEN 3 + 1 + 256 ELSE 8 + 1 + 256)
    ELSE (IF IsStandardKind(kind) THEN 3 + 1 + 16 ELSE 8 + 1 + 16)

get_max_data_length(kind) ==
    IF IsRemoteKind(kind) THEN (IF IsStandardKind(kind) THEN 3 + 1 ELSE 8 + 1)
    ELSE IF IsFdKind(kind) THEN (IF IsStandardKind(kind) THEN 3 + 1 + 128 ELSE 8 + 1 + 128)
    ELSE (IF IsStandardKind(kind) THEN 3 + 1 + 16 ELSE 8 + 1 + 16)

hex_digit_to_u8(byte) ==
    IF byte >= 48 /\ byte <= 57 THEN Ok(byte - 48)
    ELSE IF byte >= 97 /\ byte <= 102 THEN Ok(byte - 97 + 10)
    ELSE IF byte >= 65 /\ byte <= 65 THEN Ok(byte - 65 + 10)
    ELSE Err(<<"IllegalHexDigit", byte>>)

dec_digit_to_u8(byte) ==
    IF byte >= 48 /\ byte <= 57 THEN Ok(byte - 48)
    ELSE Err(<<"IllegalDecimalDigit", byte>>)

u8_from_hex(hex_nibbles) ==
    LET msn == hex_digit_to_u8(hex_nibbles[1])
        lsn == hex_digit_to_u8(hex_nibbles[2])
    IN  IF msn.tag = "Err" THEN msn
        ELSE IF lsn.tag = "Err" THEN lsn
        ELSE Ok(((msn.val * 16) % 256) + lsn.val)

\* the loop `value <<= 4; value |= nibble` of the two *_id_from_hex functions; it
\* stops at the first illegal digit.  The arrays hold 3 and 8 nibbles, so the
\* value stays below 2^12 (in a u16) and 2^32 (in a u32): the shift never wraps.
RECURSIVE id_value_from_hex(_, _)
id_value_from_hex(hex_nibbles, value) ==
    IF hex_nibbles = <<>> THEN Ok(value)
    ELSE LET d == hex_digit_to_u8(Head(hex_nibbles)) IN
         IF d.tag = "Err" THEN d
         ELSE id_value_from_hex(Tail(hex_nibbles), (value * 16) + d.val)

standard_id_from_hex(hex_nibbles) ==
    LET value == id_value_from_hex(hex_nibbles, 0) IN
    IF value.tag = "Err" THEN value
    ELSE IF StandardId_new(value.val).some THEN Ok(StandardId_new(value.val).val)
    ELSE Err(<<"StandardIdOutOfRange", value.val>>)

\* The u32 `value` can reach 2^32 - 1, beyond the model checker's integers, so
\* it is kept as its two 16-bit halves (value >> 16, value & 0xFFFF); the error
\* carries both halves, an accepted id (<= 0x1FFFFFFF) is one number again.
extended_id_from_hex(hex_nibbles) ==
    LET hi == id_value_from_hex(Take(hex_nibbles, 4), 0)
        lo == id_value_from_hex(Drop(hex_nibbles, 4), 0)
    IN  IF hi.tag = "Err" THEN hi
        ELSE IF lo.tag = "Err" THEN lo
        ELSE IF hi.val <= 8191
        THEN Ok(ExtendedId_new((hi.val * 65536) + lo.val).val)
        ELSE Err(<<"ExtendedIdOutOfRange", hi.val, lo.val>>)

\* unpack_data_bytes reporting the number of hex characters, not of bytes
unpack_data_bytes_CountsChars(hex_bytes, dlc) ==
    IF Len(hex_bytes) % 2 /= 0
    THEN Err(<<"InvalidDataLength", Len(hex_bytes) % 256>>)
    ELSE IF Len(hex_bytes) /= dlc
    THEN Err(<<"MismatchedDataLength", dlc, Len(hex_bytes)>>)
    ELSE LET chunk(i) == SubSeq(hex_bytes, 2 * i - 1, 2 * i)
             n == Len(hex_bytes) \div 2
             bad == {i \in 1..n : u8_from_hex(chunk(i)).tag = "Err"}
         IN  IF bad /= {}
             THEN u8_from_hex(chunk(CHOOSE i \in bad : \A j \in bad : i <= j))
             ELSE Ok([i \in 1..MAX_DATA_LENGTH |->
                        IF i <= n THEN u8_from_hex(chunk(i)).val ELSE 0])

unpack_data_bytes(hex_bytes, dlc) ==
    IF Len(hex_bytes) % 2 /= 0
    THEN Err(<<"InvalidDataLength", Len(hex_bytes) % 256>>)
    ELSE IF Len(hex_bytes) /= dlc
    THEN Err(<<"MismatchedDataLength", dlc, Len(hex_bytes) \div 2>>)
    ELSE LET chunk(i) == SubSeq(hex_bytes, 2 * i - 1, 2 * i)
             n == Len(hex_bytes) \div 2
             bad == {i \in 1..n : u8_from_hex(chunk(i)).tag = "Err"}
         IN  IF bad /= {}
             THEN u8_from_hex(chunk(CHOOSE i \in bad : \A j \in bad : i <= j))
             ELSE Ok([i \in 1..MAX_DATA_LENGTH |->
                        IF i <= n THEN u8_from_hex(chunk(i)).val ELSE 0])

\* the match arm of parse_frame_from_bytes for `kind`, after the length checks
parse_frame_arm(kind, message_data) ==
    LET w == IF IsStandardKind(kind) THEN 3 ELSE 8
        id_bytes == Take(message_data, w)
        dlc_byte == message_data[w + 1]
        data_bytes == Drop(message_data, w + 1)
        id == IF IsStandardKind(kind) THEN standard_id_from_hex(id_bytes)
              ELSE extended_id_from_hex(id_bytes)
        dlc == dec_digit_to_u8(dlc_byte)
        data == unpack_data_bytes(data_bytes, dlc.val)
    IN  IF id.tag = "Err" THEN id
        ELSE IF dlc.tag = "Err" THEN dlc
        ELSE IF IsRemoteKind(kind)
        THEN (LET f == Can2Frame_new_remote(id.val, dlc.val) IN
              IF f.some THEN Ok(Can2(f.val)) ELSE Panic)
        ELSE IF data.tag = "Err" THEN data
        ELSE IF IsFdKind(kind)
        THEN (LET f == CanFdFrame_new(id.val, Take(data.val, dlc.val)) IN
              IF ~f.some THEN Panic
              ELSE IF IsNoBrsKind(kind)
              THEN Ok(CanFd(CanFdFrame_with_bit_rate_switched(f.val, FALSE)))
              ELSE Ok(CanFd(f.val)))
        ELSE (LET f == Can2Frame_new_data(id.val, Take(data.val, dlc.val)) IN
              IF f.some THEN Ok(Can2(f.val)) ELSE Panic)

parse_frame_from_bytes(buffer) ==
    IF ~(Len(buffer) > 1) THEN Panic
    ELSE LET kind == MessageKind_try_from(buffer[1])
             message_data == Drop(buffer, 1)
         IN  IF kind.tag = "Err" THEN kind
             ELSE IF Len(message_data) < get_min_data_length(kind.val)
             THEN Err(<<"NotEnoughBytes", kind.val, Len(buffer)>>)
             ELSE IF Len(message_data) > get_max_data_length(kind.val)
             THEN Err(<<"TooManyBytes", kind.val, Len(buffer)>>)
             ELSE parse_frame_arm(kind.val, message_data)

(***************************************************************************)
(* lib.rs: constants and state                                             *)
(***************************************************************************)
CR == 13
SLCAN_MTU == (1 + 8 + 1 + 128) + 1 + 16

VARIABLES
    variant,     \* which CanSocket is modelled: "sync" or "tokio"
    rx_buff,     \* CanSocket.rx_buff: [u8; SLCAN_MTU]
    rx_count,    \* CanSocket.rx_count
    error,       \* CanSocket.error
    pc,          \* position of the one caller that owns the socket (&mut self)
    ret,         \* what the last finished call returned to its caller
    cur,         \* port: the bytes the port delivered since its last CR
    port_read,   \* port: how the latest port.read ended: byte, zero or err
    last_byte,   \* port: the latest byte delivered (a CR: with the line it ended)
    prev,        \* port: what became of the non-empty line before the current one
    interrupted, \* port: a read call ended while the current line was incomplete
    script,      \* port: Some(bytes still to deliver) when the input is scripted
    collected,   \* caller: the frames / decode errors read from a scripted input
    delivered,   \* port: the bytes of a scripted input delivered so far
    queue,       \* commands the running call still has to send_command
    command,     \* the argument of the latest send_command
    buffer,      \* send_command's local `buffer`
    port_log,    \* port: the write_all / flush calls of the latest send_command
    c_pc,        \* codec: position of the encode / parse pipeline
    c_frame,     \* codec: the CanFrame given to Command::TransmitFrame
    c_wire,      \* codec: the bytes returned by Command::as_bytes
    c_line,      \* codec: a line given to parse_frame_from_bytes
    c_result,    \* codec: what parse_frame_from_bytes / the called function returned
    c_call       \* codec: a single function call, [fn |-> name, args |-> arguments]

sockVars == <<variant, rx_buff, rx_count, error, pc, ret>>
portVars == <<cur, port_read, last_byte, prev, interrupted, script, collected, delivered>>
sendVars == <<queue, command, buffer, port_log>>
codecVars == <<c_pc, c_frame, c_wire, c_line, c_result, c_call>>
vars == <<variant, rx_buff, rx_count, error, pc, ret,
          cur, port_read, last_byte, prev, interrupted, script, collected, delivered,
          queue, command, buffer, port_log, c_pc, c_frame, c_wire, c_line, c_result,
          c_call>>

NoRet == [tag |-> "None"]
NoCall == [fn |-> "none"]

\* CanSocket::new (sync and tokio alike)
CanSocket_new ==
    /\ rx_buff = [i \in 1..SLCAN_MTU |-> 0]
    /\ rx_count = 0
    /\ error = FALSE

SocketInit ==
    /\ CanSocket_new
    /\ pc = "idle"
    /\ ret = NoRet
    /\ cur = <<>>
    /\ port_read = "none"
    /\ last_byte = None
    /\ prev = "none"
    /\ interrupted = FALSE
    /\ collected = <<>>
    /\ delivered = <<>>
    /\ queue = <<>>
    /\ command = None
    /\ buffer = <<>>
    /\ port_log = <<>>

CodecOff ==
    /\ c_pc = "off"
    /\ c_frame = None
    /\ c_wire = <<>>
    /\ c_line = <<>>
    /\ c_result = NoRet
    /\ c_call = NoCall

(***************************************************************************)
(* The codec on its own: Command::as_bytes and parse_frame_from_bytes      *)
(* applied to frames and lines drawn from bounded sets.                    *)
(***************************************************************************)
MaxDataLen == 65
MaxRemoteDlc == 9
MaxPayloadChars == 8

IdSamples ==
    {StandardId(0), StandardId(291), StandardId(2047),
     ExtendedId(0), ExtendedId(305419896), ExtendedId(536870911)}
ByteSamples == {0, 18, 173}
DataSamples ==
    {Fill(n, b) : n \in 0..MaxDataLen, b \in ByteSamples} \cup {<<222, 173>>}

Unwrap(S) == {o.val : o \in {p \in S : p.some}}

\* every CanFrame the public constructors hand out for the sampled arguments
LegalFrames ==
    {Can2(f) : f \in Unwrap({Can2Frame_new_data(id, d) : id \in IdSamples, d \in DataSamples})}
    \cup {Can2(f) : f \in Unwrap({Can2Frame_new_remote(id, n) :
                                   id \in IdSamples, n \in 0..MaxRemoteDlc})}
    \cup {CanFd(CanFdFrame_with_bit_rate_switched(f, brs)) :
            f \in Unwrap({CanFdFrame_new(id, d) : id \in IdSamples, d \in DataSamples})
                  \cup Unwrap({CanFdFrame_new_padded(id, d) :
                                 id \in IdSamples, d \in DataSamples}),
            brs \in BOOLEAN}

TagSamples == {MessageKind[k] : k \in DOMAIN MessageKind} \cup {103, 120}
IdHexSamples ==
    {<<48, 48, 48>>, <<49, 50, 51>>, <<55, 70, 70>>, <<56, 48, 48>>, <<49, 71, 51>>,
     <<48, 48, 48, 48, 48, 48, 48, 48>>, <<49, 50, 51, 52, 53, 54, 55, 56>>,
     <<49, 70, 70, 70, 70, 70, 70, 70>>, <<50, 48, 48, 48, 48, 48, 48, 48>>}
DlcDigitSamples == 48..58 \cup {65, 70}
PayloadSamples == {Fill(n, b) : n \in 0..MaxPayloadChars, b \in {48, 65, 71}}

HeaderLines == {<<t>> \o id \o <<d>> : t \in TagSamples, id \in IdHexSamples, d \in DlcDigitSamples}
\* CAN FD lines with the DLC digit 9 and a payload of 9, 12 or 24 bytes
FdLongLines ==
    {<<t>> \o id \o <<57>> \o Fill(2 * n, 48) :
        t \in {100, 98}, id \in {<<48, 48, 48>>}, n \in {9, 12, 24}}
    \cup {<<t>> \o id \o <<57>> \o Fill(2 * n, 48) :
        t \in {68, 66}, id \in {<<48, 48, 48, 48, 48, 48, 48, 48>>}, n \in {9, 12, 24}}
\* lines of each kind with the greatest number of bytes the kind allows, and
\* with one byte more
BoundaryLines ==
    {<<MessageKind[k]>> \o Fill(get_min_data_length(k) - 1, 48) \o <<56>>
        \o Fill(m - get_min_data_length(k), 48) :
        k \in DOMAIN MessageKind, m \in {128 + 3 + 1, 128 + 3 + 2, 128 + 8 + 1, 128 + 8 + 2,
                                         16 + 3 + 1, 16 + 3 + 2, 16 + 8 + 1, 16 + 8 + 2}}

\* non-empty lines without CR: whole lines with a payload, and every cut of a header
LineSamples ==
    {h \o p : h \in HeaderLines, p \in PayloadSamples}
    \cup UNION {{Take(h, k) : k \in 1..Len(h)} : h \in HeaderLines}
    \cup FdLongLines
    \cup BoundaryLines

CodecInit ==
    /\ variant = "sync"
    /\ SocketInit
    /\ script = None
    /\ c_wire = <<>>
    /\ c_result = NoRet
    /\ c_call = NoCall
    /\ \/ c_pc = "frame" /\ c_frame \in {Some(f) : f \in LegalFrames} /\ c_line = <<>>
       \/ c_pc = "line" /\ c_frame = None /\ c_line \in LineSamples

\* Command::TransmitFrame(frame).as_bytes()
CodecEncode ==
    /\ c_pc = "frame"
    /\ LET r == Command_as_bytes(TransmitFrame(c_frame.val)) IN
       IF r.tag = "Panic"
       THEN c_pc' = "aborted" /\ c_wire' = c_wire
       ELSE c_pc' = "wire" /\ c_wire' = r.val
    /\ UNCHANGED <<c_frame, c_line, c_result, c_call>>
    /\ UNCHANGED <<sockVars, portVars, sendVars>>

\* parse_frame_from_bytes on the encoder's output
CodecDecode ==
    /\ c_pc = "wire"
    /\ c_result' = parse_frame_from_bytes(c_wire)
    /\ c_pc' = IF c_result'.tag = "Panic" THEN "aborted" ELSE "decoded"
    /\ UNCHANGED <<c_frame, c_wire, c_line, c_call>>
    /\ UNCHANGED <<sockVars, portVars, sendVars>>

\* parse_frame_from_bytes on a line as read_line can return it
CodecParseLine ==
    /\ c_pc = "line"
    /\ c_result' = parse_frame_from_bytes(c_line)
    /\ c_pc' = IF c_result'.tag = "Panic" THEN "aborted" ELSE "parsed"
    /\ UNCHANGED <<c_frame, c_wire, c_line, c_call>>
    /\ UNCHANGED <<sockVars, portVars, sendVars>>

CodecNext == CodecEncode \/ CodecDecode \/ CodecParseLine

SpecCodec == CodecInit /\ [][CodecNext]_vars

(***************************************************************************)
(* Properties of the codec (specification SpecCodec)                       *)
(***************************************************************************)
\* C1: decoding the encoding of a legal frame returns Ok of an equal frame
\* (same variant, id, dlc / length, data and bit-rate-switch flag).
C1_RoundTrip ==
    (c_frame.some /\ c_pc \in {"decoded", "aborted"})
        => /\ c_pc = "decoded"
           /\ c_result.tag = "Ok"
           /\ c_result.val.variant = c_frame.val.variant
           /\ c_result.val.frame = c_frame.val.frame

\* C3: parse_frame_from_bytes returns Ok or Err for every line of one or more
\* bytes without CR; it never aborts.
C3_ParseNeverAborts ==
    (c_line /= <<>> /\ c_pc \in {"parsed", "aborted"})
        => c_pc = "parsed" /\ c_result.tag \in {"Ok", "Err"}

(***************************************************************************)
(* Single calls: one function of frame.rs, command.rs or parser.rs applied *)
(* to arguments drawn from bounded sets.                                   *)
(***************************************************************************)
Call(fn, args) == [fn |-> fn, args |-> args]

\* the digits 0 1 2 7 8 9 A F a f and the non-digit G
HexNibbleSamples == {48, 49, 50, 55, 56, 57, 65, 70, 97, 102, 71}
StandardIdFields == {<<a, b, c>> : a \in HexNibbleSamples, b \in HexNibbleSamples,
                                   c \in HexNibbleSamples}
ExtendedIdFields == {<<a, b>> \o Fill(6, c) : a \in HexNibbleSamples, b \in HexNibbleSamples,
                                              c \in {48, 70, 102}}

\* the calls made, with their arguments
CallSamples(fn) ==
    CASE fn = "hex_digit_to_u8" -> {<<b>> : b \in 0..255}
      [] fn = "to_hex_digit" -> {<<v>> : v \in 0..255}
      [] fn = "standard_id_from_hex" -> {<<h>> : h \in StandardIdFields}
      [] fn = "extended_id_from_hex" -> {<<h>> : h \in ExtendedIdFields}
      [] fn \in {"CanFdFrame::new", "CanFdFrame::new_padded", "Can2Frame::new_data"} ->
            {<<id, d>> : id \in IdSamples, d \in DataSamples}
      [] fn = "Can2Frame::new_remote" -> {<<id, n>> : id \in IdSamples, n \in 0..MaxRemoteDlc}
      [] fn = "FdDataLengthCode::for_length" ->
            {<<n, m>> : n \in 0..MaxDataLen, m \in 0..MaxDataLen}
      [] fn = "FdDataLengthCode::get_num_bytes" -> {<<c, d>> : c \in 0..15, d \in 0..15}
      [] fn = "parse_frame_from_bytes" -> {<<l>> : l \in LineSamples}
CalledFunctions ==
    {"hex_digit_to_u8", "to_hex_digit", "standard_id_from_hex", "extended_id_from_hex",
     "CanFdFrame::new", "CanFdFrame::new_padded", "Can2Frame::new_data",
     "Can2Frame::new_remote", "FdDataLengthCode::for_length",
     "FdDataLengthCode::get_num_bytes", "parse_frame_from_bytes"}

CallInit ==
    /\ variant = "sync"
    /\ SocketInit
    /\ script = None
    /\ c_frame = None
    /\ c_wire = <<>>
    /\ c_line = <<>>
    /\ c_result = NoRet
    /\ c_pc = "call"
    /\ \E fn \in CalledFunctions : \E args \in CallSamples(fn) : c_call = Call(fn, args)

\* the pending call returns r
Returns(r) ==
    /\ c_pc = "call"
    /\ c_result' = r
    /\ c_pc' = "returned"
    /\ UNCHANGED <<c_frame, c_wire, c_line, c_call>>
    /\ UNCHANGED <<sockVars, portVars, sendVars>>

Call_hex_digit_to_u8 ==
    /\ c_call.fn = "hex_digit_to_u8"
    /\ Returns(hex_digit_to_u8(c_call.args[1]))
Call_to_hex_digit ==
    /\ c_call.fn = "to_hex_digit"
    /\ Returns(to_hex_digit(c_call.args[1]))
Call_standard_id_from_hex ==
    /\ c_call.fn = "standard_id_from_hex"
    /\ Returns(standard_id_from_hex(c_call.args[1]))
Call_extended_id_from_hex ==
    /\ c_call.fn = "extended_id_from_hex"
    /\ Returns(extended_id_from_hex(c_call.args[1]))
Call_CanFdFrame_new ==
    /\ c_call.fn = "CanFdFrame::new"
    /\ Returns(CanFdFrame_new(c_call.args[1], c_call.args[2]))
Call_CanFdFrame_new_padded ==
    /\ c_call.fn = "CanFdFrame::new_padded"
    /\ Returns(CanFdFrame_new_padded(c_call.args[1], c_call.args[2]))
Call_Can2Frame_new_data ==
    /\ c_call.fn = "Can2Frame::new_data"
    /\ Returns(Can2Frame_new_data(c_call.args[1], c_call.args[2]))
Call_Can2Frame_new_remote ==
    /\ c_call.fn = "Can2Frame::new_remote"
    /\ Returns(Can2Frame_new_remote(c_call.args[1], c_call.args[2]))
\* for_length on two lengths
Call_for_length ==
    /\ c_call.fn = "FdDataLengthCode::for_length"
    /\ Returns(<<FdDataLengthCode_for_length(c_call.args[1]),
              FdDataLengthCode_for_length(c_call.args[2])>>)
\* FdDataLengthCode::try_from(code).unwrap().get_num_bytes() on two wire codes
Call_get_num_bytes ==
    /\ c_call.fn = "FdDataLengthCode::get_num_bytes"
    /\ Returns(<<FdDataLengthCode_get_num_bytes(FdDataLengthCode_try_from(c_call.args[1]).val),
              FdDataLengthCode_get_num_bytes(FdDataLengthCode_try_from(c_call.args[2]).val)>>)
\* parse_frame_from_bytes returns, or panics
Call_parse_frame_from_bytes ==
    /\ c_pc = "call"
    /\ c_call.fn = "parse_frame_from_bytes"
    /\ c_result' = parse_frame_from_bytes(c_call.args[1])
    /\ c_pc' = IF c_result'.tag = "Panic" THEN "aborted" ELSE "returned"
    /\ UNCHANGED <<c_frame, c_wire, c_line, c_call>>
    /\ UNCHANGED <<sockVars, portVars, sendVars>>

CallNext ==
    \/ Call_hex_digit_to_u8
    \/ Call_to_hex_digit
    \/ Call_standard_id_from_hex
    \/ Call_extended_id_from_hex
    \/ Call_CanFdFrame_new
    \/ Call_CanFdFrame_new_padded
    \/ Call_Can2Frame_new_data
    \/ Call_Can2Frame_new_remote
    \/ Call_for_length
    \/ Call_get_num_bytes
    \/ Call_parse_frame_from_bytes

SpecCalls == CallInit /\ [][CallNext]_vars

\* the arguments and the result of a finished call of fn
Called(fn) == c_pc = "returned" /\ c_call.fn = fn

(***************************************************************************)
(* Properties of single calls (specification SpecCalls)                    *)
(***************************************************************************)
\* what the SLCAN text format means by a hex digit, either case
IsHexDigit(byte) == byte \in (48..57) \cup (65..70) \cup (97..102)
HexValue(byte) ==
    IF byte \in 48..57 THEN byte - 48
    ELSE IF byte \in 65..70 THEN byte - 55
    ELSE byte - 87

\* C11: hex_digit_to_u8 returns the value 0..15 of every digit 0-9, A-F, a-f
\* and IllegalHexDigit(byte) for every other byte; the digit to_hex_digit
\* emits for a value is decoded to that value's low four bits.
C11_HexCaseInsensitive ==
    /\ Called("hex_digit_to_u8")
        => LET b == c_call.args[1] IN
           IF IsHexDigit(b)
           THEN c_result = Ok(HexValue(b))
           ELSE c_result = Err(<<"IllegalHexDigit", b>>)
    /\ Called("to_hex_digit")
        => hex_digit_to_u8(c_result) = Ok(c_call.args[1] % 16)

\* the value of a field of hex digits, most significant first
RECURSIVE HexFieldValue(_)
HexFieldValue(h) ==
    IF h = <<>> THEN 0 ELSE 16 * HexFieldValue(Take(h, Len(h) - 1)) + HexValue(h[Len(h)])
IsHexField(h) == \A i \in DOMAIN h : IsHexDigit(h[i])

\* C12: a 3-nibble hex field of value v decodes to Standard(v) when v <= 0x7FF
\* and to StandardIdOutOfRange(v) otherwise; an 8-nibble hex field of value v
\* decodes to Extended(v) when v <= 0x1FFFFFFF and to ExtendedIdOutOfRange(v)
\* otherwise (v given by its halves v >> 16 and v & 0xFFFF).
C12_IdRangeAtDecode ==
    /\ (Called("standard_id_from_hex") /\ IsHexField(c_call.args[1]))
        => LET v == HexFieldValue(c_call.args[1]) IN
           IF v <= 2047
           THEN c_result = Ok(StandardId(v))
           ELSE c_result = Err(<<"StandardIdOutOfRange", v>>)
    /\ (Called("extended_id_from_hex") /\ IsHexField(c_call.args[1]))
        => LET hi == HexFieldValue(Take(c_call.args[1], 4))
               lo == HexFieldValue(Drop(c_call.args[1], 4))
           IN  IF hi <= 8191
               THEN c_result = Ok(ExtendedId(hi * 65536 + lo))
               ELSE c_result = Err(<<"ExtendedIdOutOfRange", hi, lo>>)

\* the data lengths a CAN FD frame can have on the bus
FdLegalLengths == (0..8) \cup {12, 16, 20, 24, 32, 48, 64}

\* C13: CanFdFrame::new returns Some(frame) holding exactly the given data, with
\* bit_rate_switched set, when the data length is FD-legal, and None otherwise.
C13_ExactLengthFdConstruction ==
    Called("CanFdFrame::new")
        => LET id == c_call.args[1]
               data == c_call.args[2]
           IN  IF Len(data) \in FdLegalLengths
               THEN c_result = Some([id |-> id, data |-> data, bit_rate_switched |-> TRUE])
               ELSE c_result = None

\* C14: the data of every CanFdFrame returned by CanFdFrame::new, by
\* CanFdFrame::new_padded or by parse_frame_from_bytes has an FD-legal length.
C14_FdLengthInvariant ==
    /\ ((Called("CanFdFrame::new") \/ Called("CanFdFrame::new_padded")) /\ c_result.some)
        => Len(c_result.val.data) \in FdLegalLengths
    /\ (Called("parse_frame_from_bytes") /\ c_result.tag = "Ok"
            /\ c_result.val.variant = "CanFd")
        => Len(c_result.val.frame.data) \in FdLegalLengths

\* what the spec requires of every Can2Frame
Can2Invariant(f) ==
    /\ f.dlc <= 8
    /\ Can2Frame_is_remote(f) <=> (Can2Frame_data(f) = None)
    /\ Can2Frame_data(f).some => Len(Can2Frame_data(f).val) = f.dlc

\* C15: new_data returns None exactly when it is given more than 8 bytes,
\* new_remote exactly when dlc > 8, and every Can2Frame they or the parser
\* return has dlc <= 8, is remote exactly when data() is None, and has a
\* data() of dlc bytes otherwise.
C15_Can2FrameInvariant ==
    /\ Called("Can2Frame::new_data")
        => /\ (c_result = None) <=> (Len(c_call.args[2]) > 8)
           /\ c_result.some => Can2Invariant(c_result.val)
    /\ Called("Can2Frame::new_remote")
        => /\ (c_result = None) <=> (c_call.args[2] > 8)
           /\ c_result.some => Can2Invariant(c_result.val)
    /\ (Called("parse_frame_from_bytes") /\ c_result.tag = "Ok"
            /\ c_result.val.variant = "Can2")
        => Can2Invariant(c_result.val.frame)

\* the parser has returned a CAN 2.0 data frame of two bytes
C15_Witness ==
    /\ Called("parse_frame_from_bytes")
    /\ c_result.tag = "Ok"
    /\ c_result.val.variant = "Can2"
    /\ ~Can2Frame_is_remote(c_result.val.frame)
    /\ c_result.val.frame.dlc = 2

\* for_length's result r is the ceiling of n over the FD-legal lengths
IsCeiling(n, r) ==
    IF n <= 64
    THEN /\ r.some
         /\ LET l == FdDataLengthCode_get_num_bytes(r.val) IN
            /\ l \in FdLegalLengths
            /\ l >= n
            /\ \A k \in FdLegalLengths : k >= n => l <= k
    ELSE r = None

\* C16: for every n <= 64 FdDataLengthCode::for_length(n) is the code whose
\* get_num_bytes() is the smallest FD-legal length >= n; for n > 64 it is None.
C16_ForLengthIsCeiling ==
    Called("FdDataLengthCode::for_length")
        => /\ IsCeiling(c_call.args[1], c_result[1])
           /\ IsCeiling(c_call.args[2], c_result[2])

\* for_length has rounded 13 up to the code of 16 bytes, and refused 65
C16_Witness ==
    /\ Called("FdDataLengthCode::for_length")
    /\ c_call.args = <<13, 65>>
    /\ c_result = <<Some("Bytes16"), None>>

\* C17: get_num_bytes is strictly increasing in the wire code 0..15 and maps the
\* 16 codes into the 16 FD-legal lengths (so one to one and onto); for_length
\* is non-decreasing in n, and for_length(L).get_num_bytes() = L for legal L.
C17_LengthCodeTable ==
    /\ Called("FdDataLengthCode::get_num_bytes")
        => /\ c_result[1] \in FdLegalLengths
           /\ Cardinality(FdLegalLengths) = Cardinality(DOMAIN FdDataLengthCode)
           /\ c_call.args[1] < c_call.args[2] => c_result[1] < c_result[2]
    /\ Called("FdDataLengthCode::for_length")
        => /\ (c_call.args[1] <= c_call.args[2] /\ c_result[1].some /\ c_result[2].some)
                => /\ FdDataLengthCode[c_result[1].val] <= FdDataLengthCode[c_result[2].val]
                   /\ FdDataLengthCode_get_num_bytes(c_result[1].val)
                        <= FdDataLengthCode_get_num_bytes(c_result[2].val)
           /\ c_call.args[1] \in FdLegalLengths
                => /\ c_result[1].some
                   /\ FdDataLengthCode_get_num_bytes(c_result[1].val) = c_call.args[1]

\* the wire codes 9 and 10 have been mapped to 12 and 16 bytes
C17_Witness ==
    /\ Called("FdDataLengthCode::get_num_bytes")
    /\ c_call.args = <<9, 10>>
    /\ c_result = <<12, 16>>

\* the tags t T d D b B of the kinds that carry a payload, and the width of the
\* id field after a tag
PayloadTags == {116, 84, 100, 68, 98, 66}
FdTags == {100, 68, 98, 66}
IdWidth(tag) == IF tag \in {116, 114, 100, 98} THEN 3 ELSE 8
\* the line has a payload kind's tag, an id field the parser accepts and a DLC
\* digit; dlc_digits are the DLC digits looked at
HasPayloadHeader(line, dlc_digits) ==
    /\ Len(line) >= 1
    /\ line[1] \in PayloadTags
    /\ Len(line) >= 1 + IdWidth(line[1]) + 1
    /\ line[1 + IdWidth(line[1]) + 1] \in dlc_digits
    /\ IF IdWidth(line[1]) = 3
       THEN standard_id_from_hex(SubSeq(line, 2, 4)).tag = "Ok"
       ELSE extended_id_from_hex(SubSeq(line, 2, 9)).tag = "Ok"
DlcDigit(line) == line[1 + IdWidth(line[1]) + 1]
Payload(line) == Drop(line, 1 + IdWidth(line[1]) + 1)
\* the bytes a payload of hex pairs stands for
DecodedBytes(p) ==
    [i \in 1..(Len(p) \div 2) |-> 16 * HexValue(p[2 * i - 1]) + HexValue(p[2 * i])]
\* the data of a decoded frame
FrameData(cf) ==
    IF cf.variant = "Can2" THEN Can2Frame_data(cf.frame).val ELSE cf.frame.data

\* C18: for a payload kind and a DLC digit 0..8 (n bytes, for CAN 2.0 and for
\* CAN FD alike), an odd number of payload characters fails with
\* InvalidDataLength, an even number other than 2*n fails with
\* MismatchedDataLength, and 2*n hex characters decode to a frame with those n
\* bytes in order.
C18_PayloadLengthRule ==
    (Called("parse_frame_from_bytes") /\ HasPayloadHeader(c_call.args[1], 48..56)
        /\ IsHexField(Payload(c_call.args[1])))
        => LET n == DlcDigit(c_call.args[1]) - 48
               p == Payload(c_call.args[1])
           IN  IF Len(p) % 2 = 1
               THEN c_result.tag = "Err" /\ c_result.err[1] = "InvalidDataLength"
               ELSE IF Len(p) /= 2 * n
               THEN c_result.tag = "Err" /\ c_result.err[1] = "MismatchedDataLength"
               ELSE c_result.tag = "Ok" /\ FrameData(c_result.val) = DecodedBytes(p)

\* the byte count the length-code table gives for the wire code of a DLC digit 0..9
TableBytes(digit) == FdDataLengthCode_get_num_bytes(FdDataLengthCode_try_from(digit - 48).val)

\* C20: a CAN FD line whose DLC digit is the wire code c and which carries
\* 2 * get_num_bytes(c) hex payload characters decodes to a CanFdFrame of
\* get_num_bytes(c) data bytes, and no CAN FD line with another number of
\* payload characters is accepted; a CAN 2.0 line whose digit is n and which
\* carries 2 * n hex characters decodes to a frame of n data bytes.
C20_FdDlcAtDecode ==
    (Called("parse_frame_from_bytes") /\ HasPayloadHeader(c_call.args[1], 48..57)
        /\ IsHexField(Payload(c_call.args[1])))
        => LET line == c_call.args[1]
               n == IF line[1] \in FdTags THEN TableBytes(DlcDigit(line))
                    ELSE DlcDigit(line) - 48
           IN  IF Len(Payload(line)) = 2 * n /\ (line[1] \in FdTags \/ n <= 8)
               THEN /\ c_result.tag = "Ok"
                    /\ c_result.val.variant = (IF line[1] \in FdTags THEN "CanFd" ELSE "Can2")
                    /\ Len(FrameData(c_result.val)) = n
               ELSE line[1] \in FdTags => c_result.tag = "Err"

\* C24: whenever parse_frame_from_bytes fails with MismatchedDataLength(x, y),
\* the line is of a kind with a payload, x is the value of its DLC digit and y
\* is half the number of its payload characters; a line with the DLC digit 5
\* and 8 payload characters fails with MismatchedDataLength(5, 4).
C24_MismatchNamesDlcAndBytes ==
    Called("parse_frame_from_bytes")
        => LET line == c_call.args[1] IN
           /\ (c_result.tag = "Err" /\ c_result.err[1] = "MismatchedDataLength")
                => /\ line[1] \in PayloadTags
                   /\ c_result.err[2] = DlcDigit(line) - 48
                   /\ c_result.err[3] = Len(Payload(line)) \div 2
           /\ (HasPayloadHeader(line, {53}) /\ Len(Payload(line)) = 8)
                => c_result = Err(<<"MismatchedDataLength", 5, 4>>)

\* the parser has refused a line with the DLC digit 5 and 8 payload characters
C24_Witness ==
    /\ Called("parse_frame_from_bytes")
    /\ HasPayloadHeader(c_call.args[1], {53})
    /\ Len(Payload(c_call.args[1])) = 8
    /\ c_result = Err(<<"MismatchedDataLength", 5, 4>>)

\* the eight tags t T r R d D b B
KnownTags == {116, 84, 114, 82, 100, 68, 98, 66}

\* C26: a line whose first byte c is none of the eight tags fails with
\* UnrecognizedMessage(c), and no other line does; a decoded d/D line is a
\* CanFdFrame with bit_rate_switched = false, a b/B line one with
\* bit_rate_switched = true, a t/T line a CAN 2.0 data frame and an r/R line a
\* CAN 2.0 remote frame, with a standard id for the lowercase tag and an
\* extended id for the uppercase tag.
C26_TagDispatch ==
    (c_call.fn = "parse_frame_from_bytes" /\ c_pc \in {"returned", "aborted"})
        => LET tag == c_call.args[1][1] IN
           /\ tag \notin KnownTags => c_result = Err(<<"UnrecognizedMessage", tag>>)
           /\ (c_result.tag = "Err" /\ c_result.err[1] = "UnrecognizedMessage")
                => tag \notin KnownTags
           /\ c_result.tag = "Ok"
                => /\ c_result.val.variant = (IF tag \in FdTags THEN "CanFd" ELSE "Can2")
                   /\ tag \in {100, 68} => ~c_result.val.frame.bit_rate_switched
                   /\ tag \in {98, 66} => c_result.val.frame.bit_rate_switched
                   /\ tag \in {116, 84} => ~Can2Frame_is_remote(c_result.val.frame)
                   /\ tag \in {114, 82} => Can2Frame_is_remote(c_result.val.frame)
                   /\ c_result.val.frame.id.variant
                        = (IF tag \in {116, 114, 100, 98} THEN "Standard" ELSE "Extended")

\* the kind a tag selects
KindOfTag(tag) ==
    CASE tag = 116 -> "ReceivedStandardDataFrame"
      [] tag = 84 -> "ReceivedExtendedDataFrame"
      [] tag = 114 -> "ReceivedStandardRemoteFrame"
      [] tag = 82 -> "ReceivedExtendedRemoteFrame"
      [] tag = 100 -> "ReceivedStandardFdFrameNoBrs"
      [] tag = 68 -> "ReceivedExtendedFdFrameNoBrs"
      [] tag = 98 -> "ReceivedStandardFdFrameWithBrs"
      [] tag = 66 -> "ReceivedExtendedFdFrameWithBrs"

\* C27: for a line with one of the eight tags and m bytes after the tag, with
\* min = 4 (standard id) or 9 (extended id) and max = min for remote kinds,
\* min + 16 for CAN 2.0 data kinds and min + 128 for CAN FD kinds: m < min
\* fails with NotEnoughBytes(kind, m + 1), m > max fails with
\* TooManyBytes(kind, m + 1), whatever the digits of the line, and no other
\* line fails with either error.
C27_LengthBounds ==
    (c_call.fn = "parse_frame_from_bytes" /\ c_pc \in {"returned", "aborted"}
        /\ c_call.args[1][1] \in KnownTags)
        => LET tag == c_call.args[1][1]
               m == Len(c_call.args[1]) - 1
               min == IF tag \in {116, 114, 100, 98} THEN 4 ELSE 9
               max == IF tag \in {114, 82} THEN min
                      ELSE IF tag \in {116, 84} THEN min + 16
                      ELSE min + 128
           IN  /\ m < min => c_result = Err(<<"NotEnoughBytes", KindOfTag(tag), m + 1>>)
               /\ m > max => c_result = Err(<<"TooManyBytes", KindOfTag(tag), m + 1>>)
               /\ m \in min..max
                    => ~(c_result.tag = "Err"
                         /\ c_result.err[1] \in {"NotEnoughBytes", "TooManyBytes"})

(***************************************************************************)
(* Further properties of the codec (specification SpecCodec)               *)
(***************************************************************************)
\* the CAN FD length-code table of the protocol: entry c + 1 is the byte count
\* of the wire code c
FdLengthTable == <<0, 1, 2, 3, 4, 5, 6, 7, 8, 12, 16, 20, 24, 32, 48, 64>>
FdCodeOfLength(l) == CHOOSE c \in 0..15 : FdLengthTable[c + 1] = l
UpperHexDigit(v) == IF v <= 9 THEN 48 + v ELSE 55 + v

\* C19: the encoding of a CanFdFrame of FD-legal length L has, after the tag and
\* the id, the uppercase hex digit of the wire code the table assigns to L; the
\* encoding of a CAN 2.0 frame has the decimal digit of its byte count there.
C19_FdDlcOnEncode ==
    (c_frame.some /\ c_pc \in {"wire", "decoded", "aborted"})
        => LET f == c_frame.val.frame
               at == 1 + (IF f.id.variant = "Standard" THEN 3 ELSE 8) + 1
           IN  IF c_frame.val.variant = "CanFd"
               THEN Len(f.data) \in FdLegalLengths
                        => /\ Len(c_wire) >= at
                           /\ c_wire[at] = UpperHexDigit(FdCodeOfLength(Len(f.data)))
               ELSE /\ Len(c_wire) >= at
                    /\ c_wire[at] = 48 + f.dlc

\* C21: Command::as_bytes returns bytes for the TransmitFrame of every frame the
\* constructors hand out, and CanFdFrame::dlc returns a code for every CanFdFrame
\* of CanFdFrame::new and CanFdFrame::new_padded.
C21_EncoderTotal ==
    (c_frame.some /\ c_pc \in {"wire", "decoded", "aborted"})
        => /\ Command_as_bytes(TransmitFrame(c_frame.val)).tag = "Ok"
           /\ c_wire = Command_as_bytes(TransmitFrame(c_frame.val)).val
           /\ c_frame.val.variant = "CanFd"
                => /\ CanFdFrame_dlc(c_frame.val.frame).tag = "Ok"
                   /\ CanFdFrame_dlc(c_frame.val.frame).val \in DOMAIN FdDataLengthCode

(***************************************************************************)
(* lib.rs: the read path of the two sockets                                *)
(***************************************************************************)
Sock == [rx_buff |-> rx_buff, rx_count |-> rx_count, error |-> error]

\* sync read_line with `valid` forgetting the error flag
sync_read_line_byte_ValidIgnoresError(st, b) ==
    IF b = CR
    THEN LET valid == st.rx_count > 0
             line == Take(st.rx_buff, st.rx_count)
         IN  [rx_buff |-> st.rx_buff, rx_count |-> 0, error |-> FALSE,
              out |-> IF valid THEN Some(line) ELSE None]
    ELSE IF st.error
    THEN [rx_buff |-> st.rx_buff, rx_count |-> st.rx_count, error |-> st.error,
          out |-> None]
    ELSE IF st.rx_count >= SLCAN_MTU
    THEN [rx_buff |-> st.rx_buff, rx_count |-> st.rx_count, error |-> TRUE,
          out |-> None]
    ELSE [rx_buff |-> [st.rx_buff EXCEPT ![st.rx_count + 1] = b],
          rx_count |-> st.rx_count + 1, error |-> st.error,
          out |-> None]

\* sync read_line with the CR branch leaving the error flag set
sync_read_line_byte_ErrorNotCleared(st, b) ==
    IF b = CR
    THEN LET valid == ~st.error /\ st.rx_count > 0
             line == Take(st.rx_buff, st.rx_count)
         IN  [rx_buff |-> st.rx_buff, rx_count |-> 0, error |-> st.error,
              out |-> IF valid THEN Some(line) ELSE None]
    ELSE IF st.error
    THEN [rx_buff |-> st.rx_buff, rx_count |-> st.rx_count, error |-> st.error,
          out |-> None]
    ELSE IF st.rx_count >= SLCAN_MTU
    THEN [rx_buff |-> st.rx_buff, rx_count |-> st.rx_count, error |-> TRUE,
          out |-> None]
    ELSE [rx_buff |-> [st.rx_buff EXCEPT ![st.rx_count + 1] = b],
          rx_count |-> st.rx_count + 1, error |-> st.error,
          out |-> None]

\* sync read_line with the CR of a valid line leaving rx_count as it is
sync_read_line_byte_KeepsCount(st, b) ==
    IF b = CR
    THEN LET valid == ~st.error /\ st.rx_count > 0
             line == Take(st.rx_buff, st.rx_count)
         IN  [rx_buff |-> st.rx_buff, rx_count |-> IF valid THEN st.rx_count ELSE 0,
              error |-> FALSE,
              out |-> IF valid THEN Some(line) ELSE None]
    ELSE IF st.error
    THEN [rx_buff |-> st.rx_buff, rx_count |-> st.rx_count, error |-> st.error,
          out |-> None]
    ELSE IF st.rx_count >= SLCAN_MTU
    THEN [rx_buff |-> st.rx_buff, rx_count |-> st.rx_count, error |-> TRUE,
          out |-> None]
    ELSE [rx_buff |-> [st.rx_buff EXCEPT ![st.rx_count + 1] = b],
          rx_count |-> st.rx_count + 1, error |-> st.error,
          out |-> None]

\* sync read_line declaring the buffer full only once rx_count is past SLCAN_MTU
sync_read_line_byte_WritesPastEnd(st, b) ==
    IF b = CR
    THEN LET valid == ~st.error /\ st.rx_count > 0
             line == Take(st.rx_buff, st.rx_count)
         IN  [rx_buff |-> st.rx_buff, rx_count |-> 0, error |-> FALSE,
              out |-> IF valid THEN Some(line) ELSE None]
    ELSE IF st.error
    THEN [rx_buff |-> st.rx_buff, rx_count |-> st.rx_count, error |-> st.error,
          out |-> None]
    ELSE IF st.rx_count > SLCAN_MTU
    THEN [rx_buff |-> st.rx_buff, rx_count |-> st.rx_count, error |-> TRUE,
          out |-> None]
    ELSE [rx_buff |-> IF st.rx_count < SLCAN_MTU
                      THEN [st.rx_buff EXCEPT ![st.rx_count + 1] = b]
                      ELSE st.rx_buff,
          rx_count |-> st.rx_count + 1, error |-> st.error,
          out |-> None]

\* One iteration of the `while port.read(&mut buf)? == 1` loop of
\* sync::CanSocket::read_line for the byte b = buf[0]: the fields afterwards
\* and the line returned to read (if any).
sync_read_line_byte(st, b) ==
    IF b = CR
    THEN LET valid == ~st.error /\ st.rx_count > 0
             line == Take(st.rx_buff, st.rx_count)
         IN  [rx_buff |-> st.rx_buff, rx_count |-> 0, error |-> FALSE,
              out |-> IF valid THEN Some(line) ELSE None]
    ELSE IF st.error
    THEN [rx_buff |-> st.rx_buff, rx_count |-> st.rx_count, error |-> st.error,
          out |-> None]
    ELSE IF st.rx_count >= SLCAN_MTU
    THEN [rx_buff |-> st.rx_buff, rx_count |-> st.rx_count, error |-> TRUE,
          out |-> None]
    ELSE [rx_buff |-> [st.rx_buff EXCEPT ![st.rx_count + 1] = b],
          rx_count |-> st.rx_count + 1, error |-> st.error,
          out |-> None]

\* tokio read_line with the CR branch of a valid line leaving rx_count as it is
tokio_read_line_byte_CountNotReset(st, b) ==
    IF b = CR
    THEN LET valid == ~st.error /\ st.rx_count > 0
             line == Take(st.rx_buff, st.rx_count)
         IN  [rx_buff |-> st.rx_buff, rx_count |-> IF valid THEN st.rx_count ELSE 0,
              error |-> FALSE,
              out |-> IF valid THEN Some(line) ELSE None]
    ELSE IF st.error
    THEN [rx_buff |-> st.rx_buff, rx_count |-> st.rx_count, error |-> st.error,
          out |-> None]
    ELSE IF st.rx_count >= SLCAN_MTU
    THEN [rx_buff |-> st.rx_buff, rx_count |-> st.rx_count, error |-> TRUE,
          out |-> None]
    ELSE [rx_buff |-> [st.rx_buff EXCEPT ![st.rx_count + 1] = b],
          rx_count |-> st.rx_count + 1, error |-> st.error,
          out |-> None]

\* tokio read_line declaring the buffer full one byte early
tokio_read_line_byte_FullOneEarly(st, b) ==
    IF b = CR
    THEN LET valid == ~st.error /\ st.rx_count > 0
             line == Take(st.rx_buff, st.rx_count)
         IN  [rx_buff |-> st.rx_buff, rx_count |-> 0, error |-> FALSE,
              out |-> IF valid THEN Some(line) ELSE None]
    ELSE IF st.error
    THEN [rx_buff |-> st.rx_buff, rx_count |-> st.rx_count, error |-> st.error,
          out |-> None]
    ELSE IF st.rx_count >= SLCAN_MTU - 1
    THEN [rx_buff |-> st.rx_buff, rx_count |-> st.rx_count, error |-> TRUE,
          out |-> None]
    ELSE [rx_buff |-> [st.rx_buff EXCEPT ![st.rx_count + 1] = b],
          rx_count |-> st.rx_count + 1, error |-> st.error,
          out |-> None]

\* One iteration of the `loop` of tokio::CanSocket::read_line after
\* port.read(&mut buf).await returned 1 with b = buf[0].
tokio_read_line_byte(st, b) ==
    IF b = CR
    THEN LET valid == ~st.error /\ st.rx_count > 0
             line == Take(st.rx_buff, st.rx_count)
         IN  [rx_buff |-> st.rx_buff, rx_count |-> 0, error |-> FALSE,
              out |-> IF valid THEN Some(line) ELSE None]
    ELSE IF st.error
    THEN [rx_buff |-> st.rx_buff, rx_count |-> st.rx_count, error |-> st.error,
          out |-> None]
    ELSE IF st.rx_count >= SLCAN_MTU
    THEN [rx_buff |-> st.rx_buff, rx_count |-> st.rx_count, error |-> TRUE,
          out |-> None]
    ELSE [rx_buff |-> [st.rx_buff EXCEPT ![st.rx_count + 1] = b],
          rx_count |-> st.rx_count + 1, error |-> st.error,
          out |-> None]

\* read: Ok(parse_frame_from_bytes(&line)?) once read_line returned `line`
ReadResult(line) ==
    LET p == parse_frame_from_bytes(line) IN
    CASE p.tag = "Ok" -> [tag |-> "Frame", line |-> line, frame |-> p.val]
      [] p.tag = "Err" -> [tag |-> "Slcan", line |-> line, err |-> p.err]
      [] p.tag = "Panic" -> [tag |-> "Panic", line |-> line]

IoError(kind) == [tag |-> "Io", kind |-> kind]

(***************************************************************************)
(* The port's input.  Free input: the bytes since the last CR are a prefix *)
(* of one of the InputLines, and a CR comes after a whole InputLine or on  *)
(* an empty line.  Scripted input: the bytes of `script`, in order.        *)
(***************************************************************************)
MaxOverrun == 2
FillerLine(n) == Fill(n, 120)         \* n times 'x'

GarbageLine ==
    <<103, 97, 114, 98, 97, 103, 101, 45, 119, 105, 116, 104, 111, 117, 116, 45, 67, 82>>

InputLines ==
    { GarbageLine,
      <<116, 48, 48, 48, 49>>,                  \* t0001
      <<116, 48, 48, 48, 49, 48, 48>>,          \* t000100
      <<116, 48, 48, 48, 48>>,                  \* t0000
      <<116, 49, 50, 51, 50, 49, 50>>,          \* t123212
      <<114, 49, 50, 51, 56>>,                  \* r1238
      <<114, 48, 48, 48, 57>>,                  \* r0009
      <<116>> }                                 \* t
    \cup {FillerLine(n) : n \in (SLCAN_MTU - 1)..(SLCAN_MTU + MaxOverrun)}

NextBytes ==
    IF script.some
    THEN (IF script.val = <<>> THEN {} ELSE {Head(script.val)})
    ELSE {l[Len(cur) + 1] :
            l \in {m \in InputLines : Len(m) > Len(cur) /\ Take(m, Len(cur)) = cur}}
         \cup (IF cur = <<>> \/ cur \in InputLines THEN {CR} ELSE {})

IsCr(lb) == lb.some /\ lb.val.b = CR

\* what becomes of the line `cur` when its CR makes the loop iteration r
LineFate(r) ==
    IF cur = <<>> THEN "empty"
    ELSE IF Len(cur) > SLCAN_MTU THEN "overlong"
    ELSE IF ~r.out.some THEN "dropped"
    ELSE LET res == parse_frame_from_bytes(r.out.val) IN
         CASE res.tag = "Ok" -> "decoded"
           [] res.tag = "Err" -> "decode_error"
           [] res.tag = "Panic" -> "aborted"

\* the port hands over the byte b, which makes the loop iteration r
PortDelivers(b, r) ==
    /\ port_read' = "byte"
    /\ cur' = IF b = CR THEN <<>> ELSE Append(cur, b)
    /\ last_byte' = IF b = CR THEN Some([b |-> b, line |-> cur, fate |-> LineFate(r)])
                    ELSE Some([b |-> b])
    /\ prev' = IF IsCr(last_byte) /\ last_byte.val.line /= <<>>
               THEN last_byte.val.fate ELSE prev
    /\ interrupted' = IF cur = <<>> THEN FALSE ELSE interrupted
    /\ script' = IF script.some THEN Some(Tail(script.val)) ELSE script
    /\ delivered' = IF script.some THEN Append(delivered, b) ELSE delivered

\* the port hands over nothing, Ok(0) or Err(kind), and the read call ends
\* (ends = TRUE) or goes on waiting
PortDeliversNothing(how, ends) ==
    /\ port_read' = how
    /\ interrupted' = (interrupted \/ (ends /\ cur /= <<>>))
    /\ UNCHANGED <<cur, last_byte, prev, script, delivered>>

\* the effect of one loop iteration r for the byte b on the socket and its caller
ReadLineIteration(b, r) ==
    /\ rx_buff' = r.rx_buff
    /\ rx_count' = r.rx_count
    /\ error' = r.error
    /\ PortDelivers(b, r)
    /\ IF r.out.some
       THEN /\ ret' = ReadResult(r.out.val)
            /\ pc' = IF ret'.tag = "Panic" THEN "aborted" ELSE "idle"
            /\ collected' = IF script.some THEN Append(collected, ret') ELSE collected
       ELSE /\ ret' = ret
            /\ pc' = pc
            /\ collected' = collected

(***************************************************************************)
(* sync::CanSocket::read                                                   *)
(***************************************************************************)
SyncRead ==
    /\ variant = "sync" /\ pc = "idle"
    /\ pc' = "read_line"
    /\ ret' = NoRet
    /\ UNCHANGED <<variant, rx_buff, rx_count, error>>
    /\ UNCHANGED <<portVars, sendVars, codecVars>>

\* port.read(&mut buf) returned Ok(1)
SyncPortReadByte ==
    /\ variant = "sync" /\ pc = "read_line"
    /\ \E b \in NextBytes : ReadLineIteration(b, sync_read_line_byte(Sock, b))
    /\ UNCHANGED <<variant, sendVars, codecVars>>

\* WouldBlock throwing the partial line away
SyncPortReadZero_DropsPartialLine ==
    /\ variant = "sync" /\ pc = "read_line"
    /\ PortDeliversNothing("zero", TRUE)
    /\ ret' = IoError("WouldBlock")
    /\ pc' = "idle"
    /\ rx_count' = 0
    /\ UNCHANGED <<variant, rx_buff, error, collected>>
    /\ UNCHANGED <<sendVars, codecVars>>

\* port.read(&mut buf) returned Ok(0): the loop ends, Err(WouldBlock)
SyncPortReadZero ==
    /\ variant = "sync" /\ pc = "read_line"
    /\ PortDeliversNothing("zero", TRUE)
    /\ ret' = IoError("WouldBlock")
    /\ pc' = "idle"
    /\ UNCHANGED <<variant, rx_buff, rx_count, error, collected>>
    /\ UNCHANGED <<sendVars, codecVars>>

\* a failed port.read that is retried inside the same read call
SyncPortReadErr_Retries ==
    /\ variant = "sync" /\ pc = "read_line"
    /\ PortDeliversNothing("err", FALSE)
    /\ UNCHANGED <<variant, rx_buff, rx_count, error, pc, ret, collected>>
    /\ UNCHANGED <<sendVars, codecVars>>

\* port.read(&mut buf) returned Err(e): `?` returns it from read_line and read
SyncPortReadErr ==
    /\ variant = "sync" /\ pc = "read_line"
    /\ PortDeliversNothing("err", TRUE)
    /\ \E kind \in {"TimedOut", "BrokenPipe"} : ret' = IoError(kind)
    /\ pc' = "idle"
    /\ UNCHANGED <<variant, rx_buff, rx_count, error, collected>>
    /\ UNCHANGED <<sendVars, codecVars>>

(***************************************************************************)
(* tokio::CanSocket::read                                                  *)
(***************************************************************************)
TokioRead ==
    /\ variant = "tokio" /\ pc = "idle"
    /\ pc' = "read_line"
    /\ ret' = NoRet
    /\ UNCHANGED <<variant, rx_buff, rx_count, error>>
    /\ UNCHANGED <<portVars, sendVars, codecVars>>

\* port.read(&mut buf).await completed with Ok(1)
TokioPortReadByte ==
    /\ variant = "tokio" /\ pc = "read_line"
    /\ \E b \in NextBytes : ReadLineIteration(b, tokio_read_line_byte(Sock, b))
    /\ UNCHANGED <<variant, sendVars, codecVars>>

\* a zero-byte read that ends tokio read with WouldBlock, as in the sync socket
TokioPortReadZero_ReturnsWouldBlock ==
    /\ variant = "tokio" /\ pc = "read_line"
    /\ PortDeliversNothing("zero", TRUE)
    /\ ret' = IoError("WouldBlock")
    /\ pc' = "idle"
    /\ UNCHANGED <<variant, rx_buff, rx_count, error, collected>>
    /\ UNCHANGED <<sendVars, codecVars>>

\* port.read(&mut buf).await completed with Ok(0): `continue`
TokioPortReadZero ==
    /\ variant = "tokio" /\ pc = "read_line"
    /\ PortDeliversNothing("zero", FALSE)
    /\ UNCHANGED <<variant, rx_buff, rx_count, error, pc, ret, collected>>
    /\ UNCHANGED <<sendVars, codecVars>>

\* port.read(&mut buf).await completed with Err(e): `?` returns ReadError::Io
TokioPortReadErr ==
    /\ variant = "tokio" /\ pc = "read_line"
    /\ PortDeliversNothing("err", TRUE)
    /\ \E kind \in {"TimedOut", "BrokenPipe"} : ret' = IoError(kind)
    /\ pc' = "idle"
    /\ UNCHANGED <<variant, rx_buff, rx_count, error, collected>>
    /\ UNCHANGED <<sendVars, codecVars>>

\* a cancelled read whose partial line lived in the dropped future
TokioCancel_DropsPartialLine ==
    /\ variant = "tokio" /\ pc = "read_line"
    /\ pc' = "idle"
    /\ ret' = [tag |-> "Cancelled"]
    /\ interrupted' = (interrupted \/ cur /= <<>>)
    /\ rx_count' = 0
    /\ UNCHANGED <<variant, rx_buff, error, collected>>
    /\ UNCHANGED <<cur, port_read, last_byte, prev, script, delivered>>
    /\ UNCHANGED <<sendVars, codecVars>>

\* the caller drops the read future while it is pending in port.read().await
\* (the only await of read / read_line); the fields live in the socket
TokioCancel ==
    /\ variant = "tokio" /\ pc = "read_line"
    /\ pc' = "idle"
    /\ ret' = [tag |-> "Cancelled"]
    /\ interrupted' = (interrupted \/ cur /= <<>>)
    /\ UNCHANGED <<variant, rx_buff, rx_count, error, collected>>
    /\ UNCHANGED <<cur, port_read, last_byte, prev, script, delivered>>
    /\ UNCHANGED <<sendVars, codecVars>>

Init ==
    /\ variant \in {"sync", "tokio"}
    /\ SocketInit
    /\ script = None
    /\ CodecOff

Next ==
    \/ SyncRead
    \/ SyncPortReadByte
    \/ SyncPortReadZero
    \/ SyncPortReadErr
    \/ TokioRead
    \/ TokioPortReadByte
    \/ TokioPortReadZero
    \/ TokioPortReadErr
    \/ TokioCancel

Spec == Init /\ [][Next]_vars

(***************************************************************************)
(* The resynchronization scenario: the read path on one scripted input     *)
(***************************************************************************)
ResyncInput ==
    GarbageLine \o <<CR>>
    \o <<116, 48, 48, 48, 49>> \o <<CR>>                \* t0001
    \o <<CR>>
    \o <<116, 48, 48, 48, 49, 48, 48>> \o <<CR>>        \* t000100

ResyncInit ==
    /\ variant \in {"sync", "tokio"}
    /\ SocketInit
    /\ script = Some(ResyncInput)
    /\ CodecOff

ResyncNext ==
    \/ SyncRead
    \/ SyncPortReadByte
    \/ SyncPortReadZero
    \/ TokioRead
    \/ TokioPortReadByte
    \/ TokioPortReadZero
    \/ TokioCancel

SpecResync == ResyncInit /\ [][ResyncNext]_vars

\* C8: once the scripted input is used up the caller has got exactly one
\* frame, and no error for the lines "garbage-without-CR" and "t0001".
C8_ResyncOneFrame ==
    (script = Some(<<>>))
        => /\ Cardinality({i \in DOMAIN collected : collected[i].tag = "Frame"}) = 1
           /\ \A i \in DOMAIN collected :
                collected[i].line \in {GarbageLine, <<116, 48, 48, 48, 49>>}
                    => collected[i].tag = "Frame"

(***************************************************************************)
(* Streams of three lines: the read path on every input made of three      *)
(* CR-terminated lines, each empty, a frame or longer than SLCAN_MTU       *)
(***************************************************************************)
LineSegments ==
    { <<>>,
      <<116, 48, 48, 48, 48>>,                  \* t0000
      <<114, 49, 50, 51, 56>>,                  \* r1238
      FillerLine(SLCAN_MTU + 1) }

LineScripts ==
    {a \o <<CR>> \o b \o <<CR>> \o c \o <<CR>> :
        a \in LineSegments, b \in LineSegments, c \in LineSegments}

LinesInit ==
    /\ variant \in {"sync", "tokio"}
    /\ SocketInit
    /\ script \in {Some(s) : s \in LineScripts}
    /\ CodecOff

LinesNext ==
    \/ SyncRead
    \/ SyncPortReadByte
    \/ SyncPortReadZero
    \/ TokioRead
    \/ TokioPortReadByte
    \/ TokioPortReadZero
    \/ TokioCancel

SpecLines == LinesInit /\ [][LinesNext]_vars

\* the positions of the CRs of s, and the maximal run of non-CR bytes that the CR
\* at position i ends
CrPositions(s) == {i \in DOMAIN s : s[i] = CR}
RunBefore(s, i) ==
    LET before == {j \in CrPositions(s) : j < i}
        last == IF before = {} THEN 0 ELSE CHOOSE j \in before : \A k \in before : k <= j
    IN  SubSeq(s, last + 1, i - 1)
\* the runs of s that a CR ends and that are 1..SLCAN_MTU bytes long, in the
\* order of their CRs
FramedRuns(s) ==
    LET framed == {i \in CrPositions(s) : Len(RunBefore(s, i)) \in 1..SLCAN_MTU}
        nth(n) == CHOOSE i \in framed : Cardinality({j \in framed : j < i}) = n - 1
    IN  [n \in 1..Cardinality(framed) |-> RunBefore(s, nth(n))]

\* C22: the lines returned so far are, in order and one per CR, the maximal
\* runs of 1..SLCAN_MTU non-CR bytes that a CR has ended in the bytes delivered
\* so far: each returned line is the whole run before its CR, byte for byte.
C22_LineIntegrityAndOrder ==
    [i \in DOMAIN collected |-> collected[i].line] = FramedRuns(delivered)

\* two different lines of one stream were returned, in stream order
C22_Witness ==
    /\ script = Some(<<>>)
    /\ Len(collected) = 2
    /\ collected[1].line = <<116, 48, 48, 48, 48>>
    /\ collected[2].line = <<114, 49, 50, 51, 56>>
    /\ ret.tag = "Frame"

(***************************************************************************)
(* The suspending read: tokio read on streams of two lines, where a        *)
(* pending port.read().await completes as long as the stream has a byte    *)
(***************************************************************************)
LiveSegments ==
    { <<>>,
      <<120, 120>>,                             \* xx
      <<121, 122, 122>>,                        \* yzz
      FillerLine(SLCAN_MTU),
      FillerLine(SLCAN_MTU + 1) }

LiveScripts == {a \o <<CR>> \o b \o <<CR>> : a \in LiveSegments, b \in LiveSegments}

TokioLiveInit ==
    /\ variant = "tokio"
    /\ SocketInit
    /\ script \in {Some(s) : s \in LiveScripts}
    /\ CodecOff

TokioLiveNext ==
    \/ TokioRead
    \/ TokioPortReadByte
    \/ TokioPortReadZero
    \/ TokioPortReadErr

SpecTokioLive == TokioLiveInit /\ [][TokioLiveNext]_vars /\ WF_vars(TokioPortReadByte)

\* the lines of 1..SLCAN_MTU bytes that the stream has yet to complete
FramedLinesAhead == FramedRuns(cur \o script.val)

\* C29: a tokio read that is waiting while the stream still has a CR preceded by
\* 1..SLCAN_MTU non-CR bytes to deliver ends; a tokio read ends only with an
\* I/O error of the port or with the first such line, at its CR; a zero-byte
\* read leaves the call waiting, so on a stream that has nothing more to
\* deliver the call ends only with an I/O error.
C29_TokioReadLineLive ==
    /\ (pc = "read_line" /\ FramedLinesAhead /= <<>>) ~> (pc /= "read_line")
    /\ [][(pc = "read_line" /\ pc' /= "read_line")
            => \/ ret'.tag = "Io" /\ port_read' = "err"
               \/ /\ ret'.tag \in {"Frame", "Slcan", "Panic"}
                  /\ FramedLinesAhead /= <<>> /\ ret'.line = Head(FramedLinesAhead)
                  /\ IsCr(last_byte') /\ ret'.line = last_byte'.val.line]_vars
    /\ [][(pc = "read_line" /\ port_read' = "zero")
            => /\ pc' = "read_line" /\ ret' = ret
               /\ UNCHANGED <<rx_buff, rx_count, error>>]_vars
    /\ [][(pc = "read_line" /\ script = Some(<<>>))
            => (pc' = "read_line" \/ ret'.tag = "Io")]_vars

\* two lines were returned and a third read waits, after a zero-byte read, on a
\* stream that has nothing more to deliver
C29_Witness ==
    /\ pc = "read_line" /\ port_read = "zero"
    /\ script = Some(<<>>)
    /\ Len(collected) = 2

(***************************************************************************)
(* lib.rs: the write path (the same code in sync and tokio)                *)
(***************************************************************************)
\* open sending the Open command before the bit rate
CanSocket_open_OpenFirst(nominal_bit_rate) == <<Open, SetNominalBitRate(nominal_bit_rate)>>

CanSocket_open(nominal_bit_rate) == <<SetNominalBitRate(nominal_bit_rate), Open>>
CanSocket_close == <<Close>>
CanSocket_set_data_bit_rate(rate) == <<SetDataBitRate(rate)>>
CanSocket_set_operating_mode(mode) == <<SetMode(mode)>>
CanSocket_set_auto_retransmission_mode(mode) == <<SetAutoRetransmission(mode)>>
CanSocket_send(frame) == <<TransmitFrame(frame)>>

SendIdSamples == {StandardId(291), ExtendedId(536870911)}
SendDataSamples ==
    {<<>>, <<222, 173>>, Fill(8, 173), Fill(9, 18), Fill(12, 18), Fill(16, 18), Fill(64, 0)}
\* frames of every constructor, as a caller of send can hold them
SendFrames ==
    {Can2(f) : f \in Unwrap({Can2Frame_new_data(id, d) :
                               id \in SendIdSamples, d \in SendDataSamples})}
    \cup {Can2(f) : f \in Unwrap({Can2Frame_new_remote(id, 8) : id \in SendIdSamples})}
    \cup {CanFd(f) : f \in Unwrap({CanFdFrame_new(id, d) :
                                     id \in SendIdSamples, d \in SendDataSamples})
                         \cup Unwrap({CanFdFrame_new_padded(id, d) :
                                        id \in SendIdSamples, d \in SendDataSamples})}

\* the public calls that send, each as the commands it passes to send_command
ApiCalls ==
    {CanSocket_open(NominalBitRate[r]) : r \in DOMAIN NominalBitRate}
    \cup {CanSocket_close}
    \cup {CanSocket_set_data_bit_rate(DataBitRate[r]) : r \in DOMAIN DataBitRate}
    \cup {CanSocket_set_operating_mode(OperatingMode[m]) : m \in DOMAIN OperatingMode}
    \cup {CanSocket_set_auto_retransmission_mode(AutoRetransmissionMode[m]) :
            m \in DOMAIN AutoRetransmissionMode}
    \cup {CanSocket_send(f) : f \in SendFrames}

WriteAll(bytes, ok) == [op |-> "write_all", bytes |-> bytes, ok |-> ok]
Flush(ok) == [op |-> "flush", ok |-> ok]

\* open / close / set_* / send is called
ApiCall ==
    /\ pc = "idle"
    /\ \E cmds \in ApiCalls : queue' = cmds
    /\ pc' = "send_command"
    /\ ret' = NoRet
    /\ UNCHANGED <<command, buffer, port_log>>
    /\ UNCHANGED <<variant, rx_buff, rx_count, error, portVars, codecVars>>

\* send_command: `let mut buffer = command.as_bytes(); buffer.push(b'\r');`
send_command ==
    /\ pc = "send_command"
    /\ command' = Some(Head(queue))
    /\ port_log' = <<>>
    /\ LET bytes == Command_as_bytes(Head(queue)) IN
       IF bytes.tag = "Panic"
       THEN pc' = "aborted" /\ buffer' = <<>> /\ ret' = [tag |-> "Panic"]
       ELSE pc' = "write_all" /\ buffer' = Append(bytes.val, CR) /\ ret' = ret
    /\ UNCHANGED queue
    /\ UNCHANGED <<variant, rx_buff, rx_count, error, portVars, codecVars>>

\* send_command: `self.port.write_all(&buffer)?`
PortWriteAll ==
    /\ pc = "write_all"
    /\ \E ok \in BOOLEAN :
        /\ port_log' = Append(port_log, WriteAll(buffer, ok))
        /\ IF ok
           THEN pc' = "flush" /\ ret' = ret /\ queue' = queue
           ELSE pc' = "idle" /\ ret' = IoError("BrokenPipe") /\ queue' = <<>>
    /\ UNCHANGED <<command, buffer>>
    /\ UNCHANGED <<variant, rx_buff, rx_count, error, portVars, codecVars>>

\* send_command: `self.port.flush()?; Ok(())`, then the caller's next statement
PortFlush ==
    /\ pc = "flush"
    /\ \E ok \in BOOLEAN :
        /\ port_log' = Append(port_log, Flush(ok))
        /\ IF ~ok
           THEN pc' = "idle" /\ ret' = IoError("BrokenPipe") /\ queue' = <<>>
           ELSE /\ queue' = Tail(queue)
                /\ IF Tail(queue) = <<>>
                   THEN pc' = "idle" /\ ret' = [tag |-> "SendOk"]
                   ELSE pc' = "send_command" /\ ret' = ret
    /\ UNCHANGED <<command, buffer>>
    /\ UNCHANGED <<variant, rx_buff, rx_count, error, portVars, codecVars>>

SendNext == ApiCall \/ send_command \/ PortWriteAll \/ PortFlush

SpecSend == Init /\ [][SendNext]_vars

\* C6: a send_command that is over has issued exactly one write_all, of
\* command.as_bytes() followed by one CR, and then one flush, or no flush when
\* the write_all failed.
C6_OneWriteThenFlush ==
    (command.some /\ pc \in {"idle", "send_command", "aborted"})
        => LET bytes == Command_as_bytes(command.val) IN
           /\ bytes.tag = "Ok"
           /\ \/ port_log = <<WriteAll(Append(bytes.val, CR), FALSE)>>
              \/ \E ok \in BOOLEAN :
                    port_log = <<WriteAll(Append(bytes.val, CR), TRUE), Flush(ok)>>

\* the latest write_all or flush of the running send_command failed
LastPortCallFailed(log) == log /= <<>> /\ ~log[Len(log)].ok

\* C28: the Open command is handed to send_command only when the command
\* before it was a bit rate command whose write_all of 'S', the rate code and CR
\* and whose flush both succeeded; Open is then written as 'O' and CR in one
\* write_all followed by a flush; when the write_all or the flush of the bit
\* rate command fails, open returns the error and nothing more is written.
C28_OpenSequence ==
    /\ [][(pc = "send_command" /\ command'.some /\ command'.val.kind = "Open")
            => /\ command.some /\ command.val.kind = "SetNominalBitRate"
               /\ command.val.arg \in 48..57
               /\ port_log = <<WriteAll(<<83, command.val.arg, CR>>, TRUE), Flush(TRUE)>>]_vars
    /\ []((command.some /\ command.val.kind = "Open" /\ pc = "idle")
            => \/ port_log = <<WriteAll(<<79, CR>>, FALSE)>>
               \/ \E ok \in BOOLEAN : port_log = <<WriteAll(<<79, CR>>, TRUE), Flush(ok)>>)
    /\ [][(command.some /\ command.val.kind = "SetNominalBitRate"
            /\ port_log' /= port_log /\ LastPortCallFailed(port_log'))
            => pc' = "idle" /\ ret'.tag = "Io" /\ queue' = <<>>]_vars
    /\ [](pc = "idle" => queue = <<>>)

\* open has returned Ok after the two commands
C28_Witness ==
    /\ pc = "idle" /\ ret.tag = "SendOk"
    /\ command.some /\ command.val.kind = "Open"
    /\ port_log = <<WriteAll(<<79, CR>>, TRUE), Flush(TRUE)>>

(***************************************************************************)
(* Properties of the read path (specification Spec)                        *)
(***************************************************************************)
\* the last read call handed a line to parse_frame_from_bytes
Returned == ret.tag \in {"Frame", "Slcan", "Panic"}

\* the socket's fields reflect exactly the bytes delivered since the last CR
TracksStream ==
    /\ rx_count = Min(Len(cur), SLCAN_MTU)
    /\ error = (Len(cur) > SLCAN_MTU)
    /\ Take(rx_buff, rx_count) = Take(cur, rx_count)

\* this step is a loop iteration for a CR that ended the line last_byte'.val.line
CrStep == pc = "read_line" /\ port_read' = "byte" /\ IsCr(last_byte') /\ cur' = <<>>
          /\ ret'.tag /= "Cancelled"

\* this step is a loop iteration for a byte other than CR
ByteStep == pc = "read_line" /\ cur' /= cur /\ cur' /= <<>>

\* C2: a line reaches the parser only on a CR that finds the error flag clear
\* and at least one byte accumulated, and it is the accumulated bytes; an empty
\* line and a line longer than SLCAN_MTU reach neither the parser nor the caller.
C2_OnlyFramedLinesReachParser ==
    /\ [](Returned => /\ IsCr(last_byte)
                      /\ Len(last_byte.val.line) \in 1..SLCAN_MTU
                      /\ ret.line = last_byte.val.line)
    /\ [][(ret' /= ret /\ ret'.tag \in {"Frame", "Slcan", "Panic"})
            => /\ ~error /\ rx_count > 0
               /\ ret'.line = Take(rx_buff, rx_count)
               /\ IsCr(last_byte') /\ port_read' = "byte"]_vars
    /\ [][(CrStep /\ (last_byte'.val.line = <<>> \/ Len(last_byte'.val.line) > SLCAN_MTU))
            => ret' = ret /\ pc' = pc]_vars

\* a decode error was returned for the line that followed a discarded overlong line
C2_Witness == ret.tag = "Slcan" /\ prev = "overlong" /\ IsCr(last_byte)

\* C4: a zero-byte read makes sync read return WouldBlock with the fields as
\* they were, and whatever the interruptions the lines returned are exactly the
\* stream's lines of 1..SLCAN_MTU bytes, each returned at its CR.
C4_WouldBlockKeepsState ==
    /\ [](variant = "sync" => TracksStream)
    /\ [](variant = "sync" /\ Returned => IsCr(last_byte) /\ ret.line = last_byte.val.line)
    /\ [][(variant = "sync" /\ pc = "read_line" /\ port_read' = "zero")
            => /\ ret' = IoError("WouldBlock") /\ pc' = "idle"
               /\ UNCHANGED <<rx_buff, rx_count, error>>]_vars
    /\ [][(variant = "sync" /\ CrStep /\ Len(last_byte'.val.line) \in 1..SLCAN_MTU)
            => ret'.tag \in {"Frame", "Slcan", "Panic"}
               /\ ret'.line = last_byte'.val.line]_vars

\* sync read returned a line whose accumulation a WouldBlock had interrupted
C4_Witness == variant = "sync" /\ Returned /\ interrupted /\ Len(ret.line) > 1

\* C5: dropping the tokio read future at its await leaves the fields as they
\* were and consumes nothing, and whatever the cancellations the lines returned
\* are exactly the stream's lines of 1..SLCAN_MTU bytes, each returned at its CR.
C5_CancelSafe ==
    /\ [](variant = "tokio" => TracksStream)
    /\ [](variant = "tokio" /\ Returned => IsCr(last_byte) /\ ret.line = last_byte.val.line)
    /\ [][(variant = "tokio" /\ ret'.tag = "Cancelled" /\ ret' /= ret)
            => /\ pc = "read_line" /\ pc' = "idle"
               /\ UNCHANGED <<rx_buff, rx_count, error, cur, last_byte>>]_vars
    /\ [][(variant = "tokio" /\ CrStep /\ Len(last_byte'.val.line) \in 1..SLCAN_MTU)
            => ret'.tag \in {"Frame", "Slcan", "Panic"}
               /\ ret'.line = last_byte'.val.line]_vars

\* tokio read returned a line whose accumulation a cancelled read had begun
C5_Witness == variant = "tokio" /\ Returned /\ interrupted /\ Len(ret.line) > 1

\* C7: a byte that finds SLCAN_MTU bytes accumulated, and every later byte of
\* that line, changes nothing but the error flag; the CR of such a line resets
\* rx_count and the flag and returns nothing; the next line of 1..SLCAN_MTU
\* bytes is returned as it came.
C7_OverflowDiscardsLine ==
    /\ [][(ByteStep /\ Len(cur') > SLCAN_MTU)
            => /\ rx_buff' = rx_buff /\ rx_count' = rx_count /\ error'
               /\ ret' = ret /\ pc' = pc]_vars
    /\ [][(CrStep /\ Len(last_byte'.val.line) > SLCAN_MTU)
            => rx_count' = 0 /\ ~error' /\ ret' = ret /\ pc' = pc]_vars
    /\ [][(CrStep /\ prev' = "overlong" /\ Len(last_byte'.val.line) \in 1..SLCAN_MTU)
            => ret'.tag \in {"Frame", "Slcan", "Panic"}
               /\ ret'.line = last_byte'.val.line]_vars

\* a frame was decoded from the line that followed a discarded overlong line
C7_Witness == ret.tag = "Frame" /\ prev = "overlong" /\ IsCr(last_byte)

\* C9: when read returns a frame or a decode error the socket is back at
\* rx_count = 0, error = false; the byte after the terminator becomes byte 0 of
\* the buffer, and what read returns depends on the bytes of its own line only.
C9_DecodeErrorsKeepFraming ==
    /\ [](ret.tag \in {"Frame", "Slcan"}
            => /\ rx_count = 0 /\ ~error /\ pc = "idle"
               /\ IsCr(last_byte) /\ ret = ReadResult(last_byte.val.line))
    /\ [][(ByteStep /\ IsCr(last_byte))
            => rx_count' = 1 /\ rx_buff'[1] = last_byte'.val.b /\ ~error']_vars

\* a frame was decoded from the line that followed a line with a decode error
C9_Witness == ret.tag = "Frame" /\ prev = "decode_error" /\ IsCr(last_byte)

ProbeBytes == NextBytes \cup {CR, 120}

\* C10: in every reachable state the two read_line loops do the same to the
\* fields and return the same line for the same byte; on a zero-byte read
\* neither touches the fields, sync returns WouldBlock and tokio goes on waiting.
C10_SameFramer ==
    /\ [](\A b \in ProbeBytes : sync_read_line_byte(Sock, b) = tokio_read_line_byte(Sock, b))
    /\ [][(pc = "read_line" /\ port_read' = "zero" /\ ret'.tag /= "Cancelled")
            => /\ UNCHANGED <<rx_buff, rx_count, error>>
               /\ IF variant = "sync"
                  THEN ret' = IoError("WouldBlock") /\ pc' = "idle"
                  ELSE ret' = ret /\ pc' = "read_line"]_vars

\* tokio is still waiting after a zero-byte read that found the buffer overflowed
C10_Witness == variant = "tokio" /\ pc = "read_line" /\ port_read = "zero" /\ error

LayoutTag(cf) ==
    IF cf.variant = "Can2"
    THEN (IF cf.frame.id.variant = "Standard"
          THEN (IF cf.frame.data.some THEN 116 ELSE 114)       \* t r
          ELSE (IF cf.frame.data.some THEN 84 ELSE 82))        \* T R
    ELSE (IF cf.frame.id.variant = "Standard"
          THEN (IF cf.frame.bit_rate_switched THEN 98 ELSE 100)    \* b d
          ELSE (IF cf.frame.bit_rate_switched THEN 66 ELSE 68))    \* B D
RECURSIVE Pow16(_)
Pow16(k) == IF k = 0 THEN 1 ELSE 16 * Pow16(k - 1)
\* v as w uppercase hex nibbles, most significant first
LayoutHex(v, w) == [i \in 1..w |-> UpperHexDigit((v \div Pow16(w - i)) % 16)]
\* two uppercase hex characters per byte, high nibble first
LayoutPayload(data) ==
    [i \in 1..(2 * Len(data)) |->
        IF i % 2 = 1 THEN UpperHexDigit(data[(i + 1) \div 2] \div 16)
        ELSE UpperHexDigit(data[i \div 2] % 16)]
IsUpperHexDigit(byte) == byte \in (48..57) \cup (65..70)

\* C25: the encoding of every frame is its tag, its id as 3 or 8 uppercase hex
\* nibbles, one DLC digit and, unless the frame is remote, two uppercase hex
\* characters per data byte; all bytes after the tag are in 0-9/A-F, none is a
\* CR; Can2Frame::new_data(StandardId 0x123, [0xDE, 0xAD]) gives "t12320DEAD".
C25_EncodedLayout ==
    (c_frame.some /\ c_pc \in {"wire", "decoded", "aborted"})
        => LET f == c_frame.val.frame
               w == IF f.id.variant = "Standard" THEN 3 ELSE 8
               payload == IF c_frame.val.variant = "CanFd" THEN LayoutPayload(f.data)
                          ELSE IF f.data.some THEN LayoutPayload(Take(f.data.val, f.dlc))
                          ELSE <<>>
           IN  /\ Len(c_wire) = 1 + w + 1 + Len(payload)
               /\ c_wire[1] = LayoutTag(c_frame.val)
               /\ SubSeq(c_wire, 2, 1 + w) = LayoutHex(f.id.raw, w)
               /\ Drop(c_wire, 1 + w + 1) = payload
               /\ \A i \in 2..Len(c_wire) : IsUpperHexDigit(c_wire[i])
               /\ c_frame.val = Can2(Can2Frame_new_data(StandardId(291), <<222, 173>>).val)
                    => c_wire = <<116, 49, 50, 51, 50, 48, 68, 69, 65, 68>>


\* C30: a new socket has rx_count = 0 and error = FALSE; in every state reached
\* by reads on any byte stream rx_buff has SLCAN_MTU slots, rx_count is in
\* 0..SLCAN_MTU and error holds only with rx_count = SLCAN_MTU; a step that
\* changes rx_buff stores one byte at slot rx_count + 1 <= SLCAN_MTU.
C30_SocketStateInvariant ==
    /\ rx_count = 0 /\ ~error
    /\ [](/\ DOMAIN rx_buff = 1..SLCAN_MTU
          /\ rx_count \in 0..SLCAN_MTU
          /\ error => rx_count = SLCAN_MTU)
    /\ [][rx_buff' /= rx_buff
            => /\ rx_count < SLCAN_MTU /\ rx_count' = rx_count + 1
               /\ \A i \in (1..SLCAN_MTU) \ {rx_count + 1} : rx_buff'[i] = rx_buff[i]]_vars

\* the overrun of a line has been detected and further bytes are being dropped
C30_Witness ==
    /\ error /\ rx_count = SLCAN_MTU
    /\ port_read = "byte" /\ ~IsCr(last_byte)
    /\ Len(cur) > SLCAN_MTU + 1


\* C31: for the command that send_command was last called with, as_bytes()
\* returns a non-empty byte vector without a CR, and the buffer that
\* send_command builds and hands to write_all has exactly one CR, as its last
\* byte.
C31_OneCommandOneLine ==
    command.some
        => LET bytes == Command_as_bytes(command.val) IN
           /\ bytes.tag = "Ok"
           /\ bytes.val /= <<>>
           /\ CrPositions(bytes.val) = {}
           /\ buffer = Append(bytes.val, CR)
           /\ CrPositions(buffer) = {Len(buffer)}
           /\ \A i \in DOMAIN port_log :
                port_log[i].op = "write_all"
                    => CrPositions(port_log[i].bytes) = {Len(port_log[i].bytes)}


(***************************************************************************)
(* Buffer capacity: the read path on streams of one line whose length is   *)
(* at the parser's greatest line length or at the capacity of rx_buff      *)
(***************************************************************************)
\* the greatest buffer.len() that passes the TooManyBytes check of some kind
LongestDecodableLine ==
    CHOOSE n \in {1 + get_max_data_length(k) : k \in DOMAIN MessageKind} :
        \A k \in DOMAIN MessageKind : 1 + get_max_data_length(k) <= n

\* a line of n bytes of the kind k: tag, zero id, DLC digit 8, zeros
KindLine(k, n) ==
    <<MessageKind[k]>> \o Fill(get_min_data_length(k) - 1, 48) \o <<56>>
        \o Fill(n - 1 - get_min_data_length(k), 48)

CapacitySegments ==
    { <<116, 48, 48, 48, 48>>,                  \* t0000
      FillerLine(SLCAN_MTU),
      FillerLine(SLCAN_MTU + 1) }
    \cup UNION {{KindLine(k, n) :
                    n \in {1 + get_max_data_length(k), 1 + 8 + 1 + 128,
                           1 + 8 + 1 + 128 + 1, SLCAN_MTU, SLCAN_MTU + 1}} :
                 k \in {"ReceivedExtendedDataFrame", "ReceivedStandardFdFrameWithBrs",
                        "ReceivedExtendedFdFrameNoBrs"}}

CapacityInit ==
    /\ variant \in {"sync", "tokio"}
    /\ SocketInit
    /\ script \in {Some(l \o <<CR>>) : l \in CapacitySegments}
    /\ CodecOff

SpecCapacity == CapacityInit /\ [][LinesNext]_vars

\* C32: the greatest line length that passes the parser's length check is 138,
\* below SLCAN_MTU; when the port delivers the CR of a line, a line that
\* parse_frame_from_bytes accepts has at most 138 bytes and is returned as a
\* frame, a line of more than SLCAN_MTU bytes (which the framer drops) is not
\* one the parser accepts, and a line of 139..SLCAN_MTU bytes is returned and
\* rejected with TooManyBytes or UnrecognizedMessage.
C32_CapacityCoversDecodable ==
    /\ [](LongestDecodableLine = 1 + 8 + 1 + 128 /\ LongestDecodableLine < SLCAN_MTU)
    /\ [][(delivered' /= delivered /\ IsCr(last_byte'))
            => LET line == last_byte'.val.line
                   res == parse_frame_from_bytes(line)
               IN  /\ (line /= <<>> /\ res.tag = "Ok")
                        => /\ Len(line) <= LongestDecodableLine
                           /\ ret'.tag = "Frame" /\ ret'.line = line
                   /\ Len(line) > SLCAN_MTU
                        => /\ res.tag /= "Ok"
                           /\ pc' = pc /\ ret' = ret
                   /\ Len(line) \in (LongestDecodableLine + 1)..SLCAN_MTU
                        => /\ ret'.tag = "Slcan" /\ ret'.line = line
                           /\ ret'.err[1] \in {"TooManyBytes", "UnrecognizedMessage"}]_vars

\* a line of a known kind that fills rx_buff was returned and rejected as too long
C32_Witness ==
    /\ ret.tag = "Slcan"
    /\ Len(ret.line) = SLCAN_MTU
    /\ ret.err[1] = "TooManyBytes"
    /\ script = Some(<<>>)

====
